---- MODULE Spec2Model ----
(***************************************************************************)
(* Reference verification orchestration engine of RefCheck: the reference  *)
(* call/callback state machine (app.py), the verification scorer           *)
(* (services.py) and the token validity contract (models.py).              *)
(*                                                                         *)
(* Text is modelled as a sequence of one-character strings, so that        *)
(* lower(), strip(), len() and the substring test `in` are computed.       *)
(* Time is modelled in hours since an arbitrary origin.                    *)
(***************************************************************************)
EXTENDS Integers, Sequences, FiniteSets, TLC

VARIABLES
  scoreInput,   \* the structured_data handed to calculate_verification_score
  scoreOutput,  \* its return value (None before the call)
  now,          \* datetime.utcnow(), in hours
  refs,         \* the Reference rows of one Candidate
  candStatus,   \* Candidate.status
  config,       \* the process environment: provider credentials, work history
  last,         \* the operation handled last, with its inputs (history)
  reqs,         \* ReferenceRequest / SurveyRequest rows (persisted)
  lastCheck,    \* the token access handled last (history)
  phone,        \* a phone number handed to format_phone_e164, and its results
  sweep,        \* the executions of process_scheduled_callbacks in progress
  placed,       \* the calls the sweep has placed for each Reference (history)
  conv,         \* Reference.sms_conversation, as the stepwise webhook leaves it
  hooks,        \* the sms_webhook requests in progress
  logged,       \* the messages the webhook requests have appended (history)
  received,     \* the number of webhook requests received (history)
  surveys,      \* the SurveyRequest of each Reference, with questions and responses
  lastSurvey,   \* the survey submission handled last (history)
  scheduled_time \* Reference.scheduled_time of each Reference slot

vars ==
  << scoreInput, scoreOutput, now, refs, candStatus, config, last, reqs, lastCheck,
     phone, sweep, placed, conv, hooks, logged, received, surveys, lastSurvey,
     scheduled_time >>

scoreVars ==
  << scoreInput, scoreOutput >>

refVars ==
  << refs, candStatus, config, last >>

reqVars ==
  << reqs, lastCheck >>

\* the inputs and results of the pure functions
pureVars ==
  << scoreInput, scoreOutput, phone >>

\* the sweep executions in progress
sweepVars ==
  << sweep, placed >>

\* the webhook requests in progress and the conversation log they write
raceVars ==
  << conv, hooks, logged, received >>

\* the survey requests and their submissions
surveyVars ==
  << surveys, lastSurvey >>

\* the follow-up calls the operator has scheduled
scheduleVars ==
  << scheduled_time >>

\* None in a text column
None ==
  "None"

\* None in a DateTime or Integer column
Null ==
  0 - 1

(***************************************************************************)
(* Bounds                                                                  *)
(***************************************************************************)
MaxCappedLen ==
  4

MaxUncappedLen ==
  2

(***************************************************************************)
(* Python built-ins on text                                                *)
(***************************************************************************)
UpperChars ==
  <<"A","B","C","D","E","F","G","H","I","J","K","L","M","N","O","P","Q","R","S","T","U","V","W","X","Y","Z">>

LowerChars ==
  <<"a","b","c","d","e","f","g","h","i","j","k","l","m","n","o","p","q","r","s","t","u","v","w","x","y","z">>

WhitespaceChars ==
  {" ", "\t", "\n"}

LowerChar(c) ==
  IF \E i \in 1..Len(UpperChars) : UpperChars[i] = c
    THEN LowerChars[CHOOSE i \in 1..Len(UpperChars) : UpperChars[i] = c]
    ELSE c

\* str.lower()
RECURSIVE lower(_)
lower(s) ==
  IF s = <<>> THEN <<>> ELSE <<LowerChar(Head(s))>> \o lower(Tail(s))

RECURSIVE lstrip(_)
lstrip(s) ==
  IF s # <<>> /\ Head(s) \in WhitespaceChars THEN lstrip(Tail(s)) ELSE s

RECURSIVE rstrip(_)
rstrip(s) ==
  IF s # <<>> /\ s[Len(s)] \in WhitespaceChars
    THEN rstrip(SubSeq(s, 1, Len(s) - 1))
    ELSE s

\* str.strip()
strip(s) ==
  rstrip(lstrip(s))

\* the substring test `sub in s`
Contains(sub, s) ==
  \E i \in 1..(Len(s) - Len(sub) + 1) : SubSeq(s, i, i + Len(sub) - 1) = sub

\* the list membership test `x in list`
InList(x, list) ==
  \E i \in 1..Len(list) : list[i] = x

Min(a, b) ==
  IF a < b THEN a ELSE b

Max(a, b) ==
  IF a > b THEN a ELSE b

(***************************************************************************)
(* Verification scorer: services.calculate_verification_score              *)
(***************************************************************************)
Missing ==
  "<missing>"

\* JSON true / false / null
TriBool ==
  {"true", "false", "null"}

Sentiments ==
  {"very_positive", "positive", "neutral", "negative", "very_negative", "mixed", Missing}

Items(n) ==
  [i \in 1..n |-> "item"]

ListsUpTo(n) ==
  {Items(k) : k \in 0..n}

AnalysisInputs ==
  [ employment_confirmed : TriBool,
    dates_accurate : TriBool,
    title_confirmed : TriBool,
    would_rehire : TriBool,
    achievements_verified : ListsUpTo(MaxCappedLen),
    achievements_not_verified : ListsUpTo(MaxUncappedLen),
    discrepancies : ListsUpTo(MaxUncappedLen),
    red_flags : ListsUpTo(MaxUncappedLen),
    positive_signals : ListsUpTo(MaxCappedLen),
    overall_sentiment : Sentiments ]

\* sentiment_scores.get(key, 0)
sentiment_scores(key) ==
  CASE key = "very_positive" -> 10
    [] key = "positive" -> 5
    [] key = "neutral" -> 0
    [] key = "negative" -> -15
    [] key = "very_negative" -> -25
    [] OTHER -> 0

\* structured_data.get('overall_sentiment', 'neutral')
get_overall_sentiment(sd) ==
  IF sd.overall_sentiment = Missing THEN "neutral" ELSE sd.overall_sentiment

calculate_verification_score_NoFloor(sd) ==
  LET s0 == 50
      s1 == IF sd.employment_confirmed = "true" THEN s0 + 15
            ELSE IF sd.employment_confirmed = "false" THEN s0 - 30 ELSE s0
      s2 == IF sd.dates_accurate = "true" THEN s1 + 10
            ELSE IF sd.dates_accurate = "false" THEN s1 - 20 ELSE s1
      s3 == IF sd.title_confirmed = "true" THEN s2 + 10
            ELSE IF sd.title_confirmed = "false" THEN s2 - 15 ELSE s2
      s4 == IF sd.would_rehire = "true" THEN s3 + 15
            ELSE IF sd.would_rehire = "false" THEN s3 - 25 ELSE s3
      s5 == s4 + Min(Len(sd.achievements_verified) * 5, 15)
      s6 == s5 - Len(sd.achievements_not_verified) * 8
      s7 == s6 - Len(sd.discrepancies) * 10
      s8 == s7 - Len(sd.red_flags) * 7
      s9 == s8 + Min(Len(sd.positive_signals) * 3, 10)
      s10 == s9 + sentiment_scores(get_overall_sentiment(sd))
  IN  Min(100, s10)

calculate_verification_score_UncappedVerified(sd) ==
  LET s0 == 50
      s1 == IF sd.employment_confirmed = "true" THEN s0 + 15
            ELSE IF sd.employment_confirmed = "false" THEN s0 - 30 ELSE s0
      s2 == IF sd.dates_accurate = "true" THEN s1 + 10
            ELSE IF sd.dates_accurate = "false" THEN s1 - 20 ELSE s1
      s3 == IF sd.title_confirmed = "true" THEN s2 + 10
            ELSE IF sd.title_confirmed = "false" THEN s2 - 15 ELSE s2
      s4 == IF sd.would_rehire = "true" THEN s3 + 15
            ELSE IF sd.would_rehire = "false" THEN s3 - 25 ELSE s3
      s5 == s4 + Len(sd.achievements_verified) * 5
      s6 == s5 - Len(sd.achievements_not_verified) * 8
      s7 == s6 - Len(sd.discrepancies) * 10
      s8 == s7 - Len(sd.red_flags) * 7
      s9 == s8 + Min(Len(sd.positive_signals) * 3, 10)
      s10 == s9 + sentiment_scores(get_overall_sentiment(sd))
  IN  Max(0, Min(100, s10))

calculate_verification_score(sd) ==
  LET s0 == 50
      s1 == IF sd.employment_confirmed = "true" THEN s0 + 15
            ELSE IF sd.employment_confirmed = "false" THEN s0 - 30 ELSE s0
      s2 == IF sd.dates_accurate = "true" THEN s1 + 10
            ELSE IF sd.dates_accurate = "false" THEN s1 - 20 ELSE s1
      s3 == IF sd.title_confirmed = "true" THEN s2 + 10
            ELSE IF sd.title_confirmed = "false" THEN s2 - 15 ELSE s2
      s4 == IF sd.would_rehire = "true" THEN s3 + 15
            ELSE IF sd.would_rehire = "false" THEN s3 - 25 ELSE s3
      s5 == s4 + Min(Len(sd.achievements_verified) * 5, 15)
      s6 == s5 - Len(sd.achievements_not_verified) * 8
      s7 == s6 - Len(sd.discrepancies) * 10
      s8 == s7 - Len(sd.red_flags) * 7
      s9 == s8 + Min(Len(sd.positive_signals) * 3, 10)
      s10 == s9 + sentiment_scores(get_overall_sentiment(sd))
  IN  Max(0, Min(100, s10))

(***************************************************************************)
(* Reference state machine: data model (models.Reference, models.Candidate)*)
(***************************************************************************)
MaxTicks ==
  3

\* timedelta(hours=24) of the callback horizon
CallbackExpiryHours ==
  24

\* len(transcript.strip()) < 100
MinTranscriptLen ==
  100

\* granularity of the clock: half the callback horizon
TickHours ==
  CallbackExpiryHours \div 2

\* the slots for the Reference rows of the Candidate
Refs ==
  {1, 2}

FirstRef ==
  {1}

ReferenceStatuses ==
  {"pending", "calling", "completed", "failed", "no_answer", "scheduled"}

CallbackStatuses ==
  {"none", "awaiting_reply", "time_proposed", "confirmed", "callback_due", "completed", "expired"}

CandidateStatuses ==
  {"intake", "in_progress", "completed", "archived"}

\* a Reference row as the constructor and the column defaults leave it
NewReference ==
  [ exists |-> TRUE,
    status |-> "pending",
    callback_status |-> "none",
    sms_sent |-> FALSE,
    callback_expires_at |-> Null,
    callback_scheduled_time |-> Null,
    call_id |-> None,
    score |-> Null,
    notes |-> <<>>,
    survey_status |-> "not_sent" ]

NoReference ==
  [NewReference EXCEPT !.exists = FALSE]

\* the history record when no handler has run
NoLast ==
  [ op |-> "none",
    ref |-> 0,
    result |-> "",
    call_status |-> <<>>,
    ended_reason |-> <<>>,
    transcript |-> <<>>,
    body |-> <<>>,
    pre_callback_status |-> "",
    cand_completed |-> FALSE,
    sms_requested |-> FALSE,
    analysis_attempted |-> FALSE,
    overdue |-> {},
    parsed |-> {},
    job |-> "" ]

(***************************************************************************)
(* Inputs of the handlers                                                  *)
(***************************************************************************)
Reason_CustomerEndedCall ==
  <<"c","u","s","t","o","m","e","r","-","e","n","d","e","d","-","c","a","l","l">>

Reason_CustomerHangup ==
  <<"C","u","s","t","o","m","e","r","-","H","a","n","g","u","p">>

Reason_Voicemail ==
  <<"V","o","i","c","e","m","a","i","l">>

Reason_BusyHangup ==
  <<"c","u","s","t","o","m","e","r","-","b","u","s","y","-","h","a","n","g","u","p">>

Reason_DidNotAnswer ==
  <<"c","u","s","t","o","m","e","r","-","d","i","d","-","n","o","t","-","a","n","s","w","e","r">>

EndedReasons ==
  { Reason_CustomerEndedCall, Reason_CustomerHangup, Reason_Voicemail,
    Reason_BusyHangup, Reason_DidNotAnswer }

Text(n) ==
  [i \in 1..n |-> "x"]

Transcript_Empty ==
  <<>>

Transcript_Padded99 ==
  <<" ", " ">> \o Text(MinTranscriptLen - 1) \o <<"\n", " ">>

Transcript_100 ==
  Text(MinTranscriptLen)

Transcripts ==
  { Transcript_Empty, Transcript_Padded99, Transcript_100 }

Status_Ended ==
  <<"e","n","d","e","d">>

Status_Failed ==
  <<"f","a","i","l","e","d">>

Status_InProgress ==
  <<"i","n","-","p","r","o","g","r","e","s","s">>

Status_Error ==
  <<"E","r","r","o","r">>

\* what get_vapi_call_status_global returns: an error dict, or the call with
\* its status, endedReason and artifact.transcript
PollResponses ==
  { [error |-> TRUE, status |-> <<>>, endedReason |-> <<>>, transcript |-> <<>>] }
  \cup
  { [error |-> FALSE, status |-> st, endedReason |-> <<>>, transcript |-> <<>>] :
      st \in {Status_Failed, Status_InProgress, Status_Error} }
  \cup
  { [error |-> FALSE, status |-> Status_Ended, endedReason |-> er, transcript |-> tr] :
      er \in EndedReasons, tr \in Transcripts }

Analysis_Strong ==
  [ employment_confirmed |-> "true", dates_accurate |-> "true",
    title_confirmed |-> "true", would_rehire |-> "true",
    achievements_verified |-> Items(2), achievements_not_verified |-> Items(0),
    discrepancies |-> Items(0), red_flags |-> Items(0),
    positive_signals |-> Items(1), overall_sentiment |-> "positive" ]

Analysis_Weak ==
  [ employment_confirmed |-> "false", dates_accurate |-> "null",
    title_confirmed |-> "false", would_rehire |-> "false",
    achievements_verified |-> Items(0), achievements_not_verified |-> Items(1),
    discrepancies |-> Items(1), red_flags |-> Items(1),
    positive_signals |-> Items(0), overall_sentiment |-> Missing ]

\* what analyze_transcript_with_claude returns: a dict, or None on any failure
AnalysisResults ==
  { [ok |-> FALSE, data |-> Analysis_Weak],
    [ok |-> TRUE, data |-> Analysis_Strong] }

Body_Yes ==
  <<"y","e","s">>

Body_YesUpperPadded ==
  <<" ","Y","E","S"," ">>

Body_Okay ==
  <<"O","k","a","y">>

Body_YesPlease ==
  <<"y","e","s"," ","p","l","e","a","s","e">>

Body_Time ==
  <<"3","p","m">>

SmsBodies ==
  { Body_Yes, Body_YesUpperPadded, Body_Okay, Body_YesPlease, Body_Time }

\* what parse_callback_time_with_claude returns, for a message received at t
ParsedResults(t) ==
  { [ error |-> TRUE, parsed_successfully |-> FALSE, needs_clarification |-> FALSE,
      timezone |-> None, timezone_assumed |-> FALSE, datetime_iso |-> Null ],
    [ error |-> FALSE, parsed_successfully |-> FALSE, needs_clarification |-> FALSE,
      timezone |-> None, timezone_assumed |-> FALSE, datetime_iso |-> Null ],
    [ error |-> FALSE, parsed_successfully |-> TRUE, needs_clarification |-> TRUE,
      timezone |-> None, timezone_assumed |-> FALSE, datetime_iso |-> t + TickHours ],
    [ error |-> FALSE, parsed_successfully |-> TRUE, needs_clarification |-> FALSE,
      timezone |-> "EST", timezone_assumed |-> TRUE, datetime_iso |-> t + TickHours ],
    [ error |-> FALSE, parsed_successfully |-> TRUE, needs_clarification |-> FALSE,
      timezone |-> "PST", timezone_assumed |-> FALSE, datetime_iso |-> t + TickHours ],
    [ error |-> FALSE, parsed_successfully |-> TRUE, needs_clarification |-> FALSE,
      timezone |-> "PST", timezone_assumed |-> FALSE, datetime_iso |-> Null ] }

(***************************************************************************)
(* Call-completion classification: app.check_call_status                   *)
(***************************************************************************)
unsuccessful_reasons ==
  << <<"v","o","i","c","e","m","a","i","l">>,
     <<"n","o","-","a","n","s","w","e","r">>,
     <<"b","u","s","y">>,
     <<"f","a","i","l","e","d">>,
     <<"r","e","j","e","c","t","e","d">>,
     <<"d","e","c","l","i","n","e","d">>,
     <<"m","a","c","h","i","n","e">>,
     <<"a","n","s","w","e","r","i","n","g","-","m","a","c","h","i","n","e">>,
     <<"n","o","_","a","n","s","w","e","r">>,
     <<"c","u","s","t","o","m","e","r","-","b","u","s","y">>,
     <<"c","u","s","t","o","m","e","r","-","d","i","d","-","n","o","t","-","a","n","s","w","e","r">>,
     <<"n","o","-","h","u","m","a","n">>,
     <<"a","s","s","i","s","t","a","n","t","-","e","r","r","o","r">>,
     <<"p","h","o","n","e","-","c","a","l","l","-","p","r","o","v","i","d","e","r","-","c","l","o","s","e","d","-","w","e","b","s","o","c","k","e","t">>,
     <<"c","u","s","t","o","m","e","r","-","d","i","d","-","n","o","t","-","g","i","v","e","-","m","i","c","r","o","p","h","o","n","e","-","p","e","r","m","i","s","s","i","o","n">> >>

hangup ==
  <<"h","a","n","g","u","p">>

\* any(reason in ended_reason_lower for reason in unsuccessful_reasons)
is_unsuccessful(ended_reason) ==
  \E i \in 1..Len(unsuccessful_reasons) :
    Contains(unsuccessful_reasons[i], lower(ended_reason))

\* len(transcript.strip()) < 100
transcript_too_short(transcript) ==
  Len(strip(transcript)) < MinTranscriptLen

call_did_not_connect_IgnoresHangup(ended_reason, transcript) ==
  \/ is_unsuccessful(ended_reason)
  \/ transcript_too_short(transcript)

\* is_unsuccessful or (transcript_too_short and 'hangup' not in ended_reason_lower)
call_did_not_connect(ended_reason, transcript) ==
  \/ is_unsuccessful(ended_reason)
  \/ /\ transcript_too_short(transcript)
     /\ ~ Contains(hangup, lower(ended_reason))

\* the classification of every response the poll can receive, computed once
did_not_connect ==
  [cd \in PollResponses |-> call_did_not_connect(cd.endedReason, cd.transcript)]

RECURSIVE SumScores(_, _)
SumScores(S, rows) ==
  IF S = {} THEN 0
  ELSE LET r == CHOOSE x \in S : TRUE
       IN  rows[r].score + SumScores(S \ {r}, rows)

\* round() of num / den: to the nearest integer, a half to the even one
round(num, den) ==
  LET q == num \div den
      rem == num % den
  IN  IF 2 * rem < den THEN q
      ELSE IF 2 * rem > den THEN q + 1
      ELSE IF q % 2 = 0 THEN q ELSE q + 1

\* Candidate.get_signal over the candidate's references
get_signal(rows) ==
  LET completed_refs ==
        { r \in Refs : rows[r].exists /\ rows[r].status = "completed"
                                     /\ rows[r].score # Null }
      total == SumScores(completed_refs, rows)
      n == Cardinality(completed_refs)
  IN  IF completed_refs = {} THEN [score |-> Null, label |-> "No Data"]
      ELSE [ score |-> round(total, n),
             label |-> IF total >= 75 * n THEN "Strong"
                       ELSE IF total >= 55 * n THEN "Moderate"
                       ELSE "Concerns" ]

\* all(r.status in ['completed', 'failed', 'no_answer'] for r in candidate.references)
all_done(rows) ==
  \A r \in Refs :
    rows[r].exists => rows[r].status \in {"completed", "failed", "no_answer"}

job_NoFallback ==
  IF config.ref_job THEN "reference" ELSE "none"

\* job = reference.job, else the first of candidate.jobs, else None
job ==
  IF config.ref_job THEN "reference"
  ELSE IF config.has_job THEN "first"
  ELSE "none"

\* if not job: the handler stops before the provider is called
job_available ==
  job # "none"

(***************************************************************************)
(* Operator routes on references and the candidate                         *)
(***************************************************************************)
Record(op, r) ==
  [NoLast EXCEPT !.op = op, !.ref = r]

add_reference_ReopensCandidate(r) ==
  /\ ~ refs[r].exists
  /\ refs' = [refs EXCEPT ![r] = NewReference]
  /\ candStatus' = IF candStatus = "completed" THEN "in_progress" ELSE candStatus
  /\ last' = Record("add_reference", r)
  /\ UNCHANGED << config, now, pureVars, raceVars, scheduleVars, surveyVars, reqVars, sweepVars >>

add_reference(r) ==
  /\ ~ refs[r].exists
  /\ refs' = [refs EXCEPT ![r] = NewReference]
  /\ last' = Record("add_reference", r)
  /\ UNCHANGED << candStatus, config, now, pureVars, raceVars, scheduleVars, surveyVars, reqVars, sweepVars >>

delete_reference(r) ==
  /\ refs[r].exists
  /\ refs' = [refs EXCEPT ![r] = NoReference]
  /\ scheduled_time' = [scheduled_time EXCEPT ![r] = Null]
  /\ last' = Record("delete_reference", r)
  /\ UNCHANGED << candStatus, config, now, pureVars, raceVars, surveyVars, reqVars, sweepVars >>

\* PATCH of a reference with a 'status' field
update_reference(r, st) ==
  /\ refs[r].exists
  /\ refs' = [refs EXCEPT ![r].status = st]
  /\ last' = Record("update_reference", r)
  /\ UNCHANGED << candStatus, config, now, pureVars, raceVars, scheduleVars, surveyVars, reqVars, sweepVars >>

\* PATCH of the candidate with a 'status' field
update_candidate(st) ==
  /\ candStatus' = st
  /\ last' = [Record("update_candidate", 0) EXCEPT
                !.cand_completed = (st = "completed" /\ candStatus # "completed")]
  /\ UNCHANGED << refs, config, now, pureVars, raceVars, scheduleVars, surveyVars, reqVars, sweepVars >>

\* the status the schedule request sets; the scheduled_time column, which no
\* handler reads, is left to schedule_reference_call_at
schedule_reference_call(r) ==
  /\ refs[r].exists
  /\ refs' = [refs EXCEPT ![r].status = "scheduled"]
  /\ last' = Record("schedule_reference_call", r)
  /\ UNCHANGED << candStatus, config, now, pureVars, raceVars, scheduleVars, surveyVars, reqVars, sweepVars >>

\* the times a schedule request asks for
ScheduleTimes ==
  {0, TickHours, 2 * TickHours}

\* the same handler with the column it writes: data['scheduled_time'] is t
schedule_reference_call_at(r, t) ==
  /\ refs[r].exists
  /\ refs' = [refs EXCEPT ![r].status = "scheduled"]
  /\ scheduled_time' = [scheduled_time EXCEPT ![r] = t]
  /\ last' = Record("schedule_reference_call", r)
  /\ UNCHANGED << candStatus, config, now, pureVars, raceVars, surveyVars, reqVars, sweepVars >>

send_reference_sms(r, sms_ok) ==
  /\ refs[r].exists
  /\ IF ~ config.twilio
       THEN /\ ~ sms_ok
            /\ refs' = refs
            /\ last' = [Record("send_reference_sms", r) EXCEPT !.result = "not_configured"]
       ELSE /\ refs' = IF sms_ok THEN [refs EXCEPT ![r].sms_sent = TRUE] ELSE refs
            /\ last' = [Record("send_reference_sms", r) EXCEPT
                          !.result = IF sms_ok THEN "ok" ELSE "error"]
  /\ UNCHANGED << candStatus, config, now, pureVars, raceVars, scheduleVars, surveyVars, reqVars, sweepVars >>

(***************************************************************************)
(* Outbound calls                                                          *)
(***************************************************************************)
PlaceCall_StaysCalling(row, call_ok) ==
  IF call_ok
    THEN [row EXCEPT !.status = "calling", !.call_id = "call"]
    ELSE [row EXCEPT !.status = "calling"]

\* the row after reference.status = 'calling' and initiate_vapi_call_global
PlaceCall(row, call_ok) ==
  IF call_ok
    THEN [row EXCEPT !.status = "calling", !.call_id = "call"]
    ELSE [row EXCEPT !.status = "failed"]

\* if not VAPI_API_KEY or not VAPI_PHONE_NUMBER_ID: return 500
vapi_configured ==
  config.vapi

start_reference_check(r, call_ok) ==
  /\ refs[r].exists
  /\ refs' = IF vapi_configured /\ job_available
               THEN [refs EXCEPT ![r] = PlaceCall(@, call_ok)]
               ELSE refs
  /\ last' = [Record("start_reference_check", r) EXCEPT
                !.result = IF ~ vapi_configured THEN "not_configured"
                           ELSE IF ~ job_available THEN "no_job"
                           ELSE IF call_ok THEN "ok" ELSE "error",
                !.job = IF vapi_configured THEN job ELSE ""]
  /\ UNCHANGED << candStatus, config, now, pureVars, raceVars, scheduleVars, surveyVars, reqVars, sweepVars >>

\* the references start_outreach calls
pending_refs ==
  { r \in Refs : refs[r].exists /\ refs[r].status = "pending" /\ job_available }

start_outreach(call_ok) ==
  /\ IF ~ vapi_configured
       THEN /\ UNCHANGED << candStatus, refs >>
            /\ last' = [Record("start_outreach", 0) EXCEPT !.result = "not_configured"]
       ELSE /\ candStatus' = "in_progress"
            /\ refs' = [r \in Refs |->
                          IF r \in pending_refs THEN PlaceCall(refs[r], call_ok[r])
                          ELSE refs[r]]
            /\ last' = [Record("start_outreach", 0) EXCEPT !.result = "ok", !.job = job]
  /\ UNCHANGED << config, now, pureVars, raceVars, scheduleVars, surveyVars, reqVars, sweepVars >>

(***************************************************************************)
(* Status poll: app.check_call_status                                      *)
(***************************************************************************)
error_word ==
  <<"e","r","r","o","r">>

\* status == 'failed' or 'error' in status.lower(), computed once per status
failed_status ==
  [st \in {cd.status : cd \in PollResponses} |->
     st = Status_Failed \/ Contains(error_word, lower(st))]

NoAnswerRow_WithoutSend(row, sms_ok) ==
  IF ~ row.sms_sent /\ config.twilio
    THEN [row EXCEPT !.status = "no_answer",
                     !.notes = <<"Call unsuccessful">>,
                     !.sms_sent = TRUE,
                     !.callback_status = "awaiting_reply",
                     !.callback_expires_at = now + CallbackExpiryHours]
    ELSE [row EXCEPT !.status = "no_answer", !.notes = <<"Call unsuccessful">>]

\* the no_answer branch, with the automatic callback-request SMS
NoAnswerRow(row, sms_ok) ==
  IF ~ row.sms_sent /\ config.twilio /\ sms_ok
    THEN [row EXCEPT !.status = "no_answer",
                     !.notes = <<"Call unsuccessful">>,
                     !.sms_sent = TRUE,
                     !.callback_status = "awaiting_reply",
                     !.callback_expires_at = now + CallbackExpiryHours]
    ELSE [row EXCEPT !.status = "no_answer", !.notes = <<"Call unsuccessful">>]

\* if job and transcript: the analysis is requested
analysis_attempted(transcript) ==
  job_available /\ transcript # <<>>

\* the completed branch, with the transcript analysis
CompletedRow(row, transcript, analysis) ==
  IF analysis_attempted(transcript) /\ analysis.ok
    THEN [row EXCEPT !.status = "completed",
                     !.score = calculate_verification_score(analysis.data)]
    ELSE [row EXCEPT !.status = "completed"]

\* if all_done: candidate.status = 'completed'
Rollup(rows) ==
  IF all_done(rows) THEN "completed" ELSE candStatus

\* the callback request sent on every unsuccessful poll
SmsResults_IgnoresSent(row) ==
  IF config.twilio THEN BOOLEAN ELSE {FALSE}

\* send_callback_request_sms is called only when no SMS was sent before
SmsResults(row) ==
  IF ~ row.sms_sent /\ config.twilio THEN BOOLEAN ELSE {FALSE}

\* analyze_transcript_with_claude is called only with a job and a transcript
AnalysisResultsFor(transcript) ==
  IF analysis_attempted(transcript) THEN AnalysisResults
  ELSE {[ok |-> FALSE, data |-> Analysis_Weak]}

\* the ended branch: the row is settled, committed, and the rollup runs
Settle(r, row, rec) ==
  LET rows == [refs EXCEPT ![r] = row]
  IN  /\ refs' = rows
      /\ candStatus' = Rollup(rows)
      /\ last' = [rec EXCEPT
                    !.result = "ok",
                    !.cand_completed = (Rollup(rows) = "completed" /\ candStatus # "completed")]

poll_error_MarksFailed(r, rec) ==
  /\ refs' = [refs EXCEPT ![r].status = "failed"]
  /\ last' = [rec EXCEPT !.result = "error"]
  /\ UNCHANGED candStatus

\* if call_data.get('error'): return jsonify(call_data), 500
poll_error(r, rec) ==
  /\ last' = [rec EXCEPT !.result = "error"]
  /\ UNCHANGED << refs, candStatus >>

check_call_status(r, call_data) ==
  /\ refs[r].exists
  /\ refs[r].call_id # None
  /\ LET rec == [Record("check_call_status", r) EXCEPT
                   !.call_status = call_data.status,
                   !.ended_reason = call_data.endedReason,
                   !.transcript = call_data.transcript]
     IN
     IF call_data.error
       THEN poll_error(r, rec)
     ELSE IF call_data.status = Status_Ended
       THEN IF did_not_connect[call_data]
              THEN \E sms_ok \in SmsResults(refs[r]) :
                     Settle(r, NoAnswerRow(refs[r], sms_ok),
                            [rec EXCEPT !.sms_requested = sms_ok])
              ELSE \E analysis \in AnalysisResultsFor(call_data.transcript) :
                     Settle(r, CompletedRow(refs[r], call_data.transcript, analysis),
                            [rec EXCEPT !.analysis_attempted =
                                           analysis_attempted(call_data.transcript)])
     ELSE IF failed_status[call_data.status]
       THEN /\ refs' = [refs EXCEPT ![r].status = "failed"]
            /\ last' = [rec EXCEPT !.result = "ok"]
            /\ UNCHANGED candStatus
     ELSE /\ last' = [rec EXCEPT !.result = "ok"]
          /\ UNCHANGED << refs, candStatus >>
  /\ UNCHANGED << config, now, pureVars, raceVars, scheduleVars, surveyVars, reqVars, sweepVars >>

(***************************************************************************)
(* The calls blueprint: refcheck_app.api.calls_api                         *)
(***************************************************************************)
\* POST /api/start-reference-check of the blueprint
bp_start_reference_check(r, call_ok) ==
  /\ refs[r].exists
  /\ job_available
  /\ refs' = IF call_ok
               THEN [refs EXCEPT ![r].call_id = "call", ![r].status = "calling"]
               ELSE refs
  /\ last' = [Record("bp_start_reference_check", r) EXCEPT
                !.result = IF call_ok THEN "ok" ELSE "error"]
  /\ UNCHANGED << candStatus, config, now, pureVars, raceVars, scheduleVars, surveyVars, reqVars, sweepVars >>

\* GET /api/check-status/<check_id> of the blueprint
check_status(r, call_data) ==
  /\ refs[r].exists
  /\ refs[r].call_id # None
  /\ refs' = IF ~ call_data.error /\ call_data.status = Status_Ended
               THEN [refs EXCEPT ![r].status = "completed"]
               ELSE refs
  /\ last' = [Record("check_status", r) EXCEPT
                !.call_status = call_data.status,
                !.ended_reason = call_data.endedReason,
                !.transcript = call_data.transcript,
                !.result = IF call_data.error THEN "error" ELSE "ok"]
  /\ UNCHANGED << candStatus, config, now, pureVars, raceVars, scheduleVars, surveyVars, reqVars, sweepVars >>

(***************************************************************************)
(* Inbound SMS: app.sms_webhook                                            *)
(***************************************************************************)
affirmative_bodies ==
  << <<"y","e","s">>,
     <<"y">>,
     <<"y","e","p">>,
     <<"y","e","a","h">>,
     <<"s","u","r","e">>,
     <<"o","k">>,
     <<"o","k","a","y">>,
     <<"c","o","n","f","i","r","m">>,
     <<"c","o","n","f","i","r","m","e","d">> >>

\* body_lower in [...], for body = request.form.get('Body', '').strip()
is_affirmative_CaseSensitive(raw_body) ==
  InList(strip(strip(raw_body)), affirmative_bodies)

is_affirmative(raw_body) ==
  InList(strip(lower(strip(raw_body))), affirmative_bodies)

\* the test of every body the webhook can receive, computed once
affirmative ==
  [b \in SmsBodies |-> is_affirmative(b)]

\* the branch for callback_status == 'awaiting_reply', an ambiguous time
\* taken as a decline
AwaitingReplyRow_ClarificationDeclines(row, parsed) ==
  IF parsed.error THEN row
  ELSE IF ~ parsed.parsed_successfully \/ parsed.needs_clarification
    THEN [row EXCEPT !.callback_status = "none", !.notes = <<"Reference declined">>]
  ELSE [row EXCEPT !.callback_status = "time_proposed",
                   !.callback_scheduled_time = parsed.datetime_iso]

\* the branch for callback_status == 'awaiting_reply'
AwaitingReplyRow(row, parsed) ==
  IF parsed.error THEN row
  ELSE IF ~ parsed.parsed_successfully
    THEN [row EXCEPT !.callback_status = "none", !.notes = <<"Reference declined">>]
  ELSE IF parsed.needs_clarification THEN row
  ELSE [row EXCEPT !.callback_status = "time_proposed",
                   !.callback_scheduled_time = parsed.datetime_iso]

\* the else branch for callback_status == 'time_proposed', the horizon
\* restarted by the new suggestion
NewSuggestionRow_ExtendsHorizon(row, parsed) ==
  IF parsed.parsed_successfully /\ parsed.datetime_iso # Null
    THEN [row EXCEPT !.callback_status = "time_proposed",
                     !.callback_scheduled_time = parsed.datetime_iso,
                     !.callback_expires_at = now + CallbackExpiryHours]
    ELSE [row EXCEPT !.callback_status = "awaiting_reply"]

\* the else branch for callback_status == 'time_proposed': a new suggestion
NewSuggestionRow(row, parsed) ==
  IF parsed.parsed_successfully /\ parsed.datetime_iso # Null
    THEN [row EXCEPT !.callback_status = "time_proposed",
                     !.callback_scheduled_time = parsed.datetime_iso]
    ELSE [row EXCEPT !.callback_status = "awaiting_reply"]

\* whether the handler sends, and logs, a reply
replies(row, raw_body, parsed) ==
  IF row.callback_status = "awaiting_reply"
    THEN parsed.error \/ parsed.parsed_successfully
  ELSE IF row.callback_status = "time_proposed"
    THEN affirmative[raw_body] \/ (parsed.parsed_successfully /\ parsed.datetime_iso # Null)
  ELSE FALSE

\* the history record of an inbound message
Received(r, raw_body) ==
  [Record("sms_webhook", r) EXCEPT
     !.body = raw_body,
     !.result = "ok",
     !.pre_callback_status = refs[r].callback_status]

\* r is the first Reference the phone query returns
sms_webhook(r, raw_body) ==
  /\ refs[r].exists
  /\ IF refs[r].callback_status = "awaiting_reply"
       THEN \E parsed \in ParsedResults(now) :
              /\ refs' = [refs EXCEPT ![r] = AwaitingReplyRow(@, parsed)]
              /\ last' = [Received(r, raw_body) EXCEPT
                            !.parsed = {parsed},
                            !.sms_requested = replies(refs[r], raw_body, parsed)]
     ELSE IF refs[r].callback_status = "time_proposed"
       THEN IF affirmative[raw_body]
              THEN /\ refs' = [refs EXCEPT ![r].callback_status = "confirmed"]
                   /\ last' = [Received(r, raw_body) EXCEPT !.sms_requested = TRUE]
              ELSE \E parsed \in ParsedResults(now) :
                     /\ refs' = [refs EXCEPT ![r] = NewSuggestionRow(@, parsed)]
                     /\ last' = [Received(r, raw_body) EXCEPT
                                   !.parsed = {parsed},
                                   !.sms_requested = replies(refs[r], raw_body, parsed)]
     ELSE /\ refs' = refs
          /\ last' = Received(r, raw_body)
  /\ UNCHANGED << candStatus, config, now, pureVars, raceVars, scheduleVars, surveyVars, reqVars, sweepVars >>

\* ---- the same handler, from its query to its commit, so that requests
\* ---- for one Reference can overlap
MaxRequests ==
  3

Hooks ==
  {1, 2}

NoHook ==
  [pc |-> "idle", ref |-> 0, body |-> <<>>, row |-> NoReference, log |-> <<>>, n |-> 0]

Message(direction, n) ==
  [direction |-> direction, n |-> n]

\* the columns the session writes at commit: those it has changed
Flush(stored, loaded, changed) ==
  [f \in DOMAIN stored |-> IF changed[f] # loaded[f] THEN changed[f] ELSE stored[f]]

\* the row as the handler's branches leave it in the session
handled(row, raw_body, parsed) ==
  IF row.callback_status = "awaiting_reply" THEN AwaitingReplyRow(row, parsed)
  ELSE IF row.callback_status = "time_proposed"
    THEN IF affirmative[raw_body]
           THEN [row EXCEPT !.callback_status = "confirmed"]
           ELSE NewSuggestionRow(row, parsed)
  ELSE row

\* the query loads the row; add_to_sms_conversation(reference, 'inbound', body)
hook_receive(h, r, raw_body) ==
  /\ hooks[h].pc = "idle"
  /\ received < MaxRequests
  /\ refs[r].exists
  /\ received' = received + 1
  /\ hooks' = [hooks EXCEPT ![h] =
                 [pc |-> "handling", ref |-> r, body |-> raw_body, row |-> refs[r],
                  log |-> Append(conv[r], Message("inbound", received + 1)),
                  n |-> received + 1]]
  /\ last' = Record("hook_receive", r)
  /\ UNCHANGED << refs, conv, logged, candStatus, config, now, pureVars, scheduleVars, reqVars, sweepVars,
                  surveyVars >>

\* whether the handler calls parse_callback_time_with_claude
parses(row, raw_body) ==
  \/ row.callback_status = "awaiting_reply"
  \/ row.callback_status = "time_proposed" /\ ~ affirmative[raw_body]

\* the branches of the handler, its reply, and db.session.commit()
hook_commit(h) ==
  /\ hooks[h].pc = "handling"
  /\ \E parsed \in ParsedResults(now) :
       LET r == hooks[h].ref
           reply == replies(hooks[h].row, hooks[h].body, parsed)
           log == IF reply THEN Append(hooks[h].log, Message("outbound", hooks[h].n))
                  ELSE hooks[h].log
       IN  /\ parses(hooks[h].row, hooks[h].body) \/ parsed.error
           /\ refs' = [refs EXCEPT ![r] =
                         Flush(@, hooks[h].row, handled(hooks[h].row, hooks[h].body, parsed))]
           /\ conv' = [conv EXCEPT ![r] = log]
           /\ logged' = [logged EXCEPT ![r] =
                           @ \cup {Message("inbound", hooks[h].n)}
                             \cup (IF reply THEN {Message("outbound", hooks[h].n)} ELSE {})]
           /\ last' = Record("hook_commit", r)
  /\ hooks' = [hooks EXCEPT ![h] = NoHook]
  /\ UNCHANGED << received, candStatus, config, now, pureVars, scheduleVars, reqVars, sweepVars, surveyVars >>

(***************************************************************************)
(* Scheduled sweep: app.process_scheduled_callbacks                        *)
(***************************************************************************)
\* callback_status == 'confirmed' and callback_scheduled_time <= now
due_callback(row) ==
  /\ row.exists
  /\ row.callback_status = "confirmed"
  /\ row.callback_scheduled_time # Null
  /\ row.callback_scheduled_time <= now

\* callback_status in (awaiting_reply, time_proposed) and callback_expires_at <= now
expired_callback_AwaitingOnly(row) ==
  /\ row.exists
  /\ row.callback_status = "awaiting_reply"
  /\ row.callback_expires_at # Null
  /\ row.callback_expires_at <= now

expired_callback(row) ==
  /\ row.exists
  /\ row.callback_status \in {"awaiting_reply", "time_proposed"}
  /\ row.callback_expires_at # Null
  /\ row.callback_expires_at <= now

\* the loop body for one expired callback
ExpiredRow(row) ==
  [row EXCEPT !.callback_status = "expired", !.notes = Append(@, "Callback expired")]

\* the loop body for one due callback
DueCallbackRow(row, call_ok) ==
  IF ~ job_available
    THEN [row EXCEPT !.callback_status = "completed",
                     !.notes = Append(@, "Callback skipped")]
  ELSE IF call_ok /\ config.vapi
    THEN [row EXCEPT !.status = "calling", !.call_id = "call",
                     !.callback_status = "completed"]
  ELSE [row EXCEPT !.status = "failed", !.callback_status = "completed",
                   !.notes = Append(@, "Callback failed")]

\* the references whose horizon has passed when the sweep starts
Overdue ==
  { r \in Refs :
      /\ refs[r].exists
      /\ refs[r].callback_status \in {"awaiting_reply", "time_proposed"}
      /\ refs[r].callback_expires_at # Null
      /\ now > refs[r].callback_expires_at }

\* the sweep, putting the Candidate back in progress when it places a call
process_scheduled_callbacks_ReopensCandidate(call_ok) ==
  /\ refs' = [r \in Refs |->
                IF due_callback(refs[r]) THEN DueCallbackRow(refs[r], call_ok[r])
                ELSE IF expired_callback(refs[r])
                  THEN ExpiredRow(refs[r])
                ELSE refs[r]]
  /\ candStatus' = IF \E r \in Refs : due_callback(refs[r]) THEN "in_progress"
                   ELSE candStatus
  /\ last' = [Record("process_scheduled_callbacks", 0) EXCEPT
                !.result = "ok", !.overdue = Overdue]
  /\ UNCHANGED << config, now, pureVars, raceVars, scheduleVars, surveyVars, reqVars, sweepVars >>

process_scheduled_callbacks(call_ok) ==
  /\ refs' = [r \in Refs |->
                IF due_callback(refs[r]) THEN DueCallbackRow(refs[r], call_ok[r])
                ELSE IF expired_callback(refs[r])
                  THEN ExpiredRow(refs[r])
                ELSE refs[r]]
  /\ last' = [Record("process_scheduled_callbacks", 0) EXCEPT
                !.result = "ok", !.overdue = Overdue]
  /\ UNCHANGED << candStatus, config, now, pureVars, raceVars, scheduleVars, surveyVars, reqVars, sweepVars >>

\* ---- the same handler, one execution step at a time, so that executions
\* ---- can overlap each other and the other handlers
Sweepers ==
  {1, 2}

FirstSweeper ==
  {1}

NoSweep ==
  [pc |-> "idle", due |-> {}, cur |-> 0, at |-> 0]

\* now = datetime.utcnow(); due_callbacks = Reference.query.filter(...).all()
sweep_begin(e) ==
  /\ sweep[e].pc = "idle"
  /\ sweep' = [sweep EXCEPT ![e] =
                 [pc |-> "loop", due |-> {r \in Refs : due_callback(refs[r])},
                  cur |-> 0, at |-> now]]
  /\ last' = Record("sweep_begin", 0)
  /\ UNCHANGED << refs, placed, candStatus, config, now, pureVars, raceVars, scheduleVars, surveyVars, reqVars >>

\* the loop body up to its first commit, for a reference of the list
sweep_mark(e, r) ==
  /\ sweep[e].pc = "loop"
  /\ r \in sweep[e].due
  /\ IF ~ job_available
       THEN /\ refs' = [refs EXCEPT ![r].callback_status = "completed",
                                    ![r].notes = Append(@, "Callback skipped")]
            /\ sweep' = [sweep EXCEPT ![e].due = @ \ {r}]
       ELSE /\ refs' = [refs EXCEPT ![r].callback_status = "callback_due",
                                    ![r].status = "calling"]
            /\ sweep' = [sweep EXCEPT ![e].pc = "call", ![e].cur = r]
  /\ last' = Record("sweep_mark", r)
  /\ UNCHANGED << placed, candStatus, config, now, pureVars, raceVars, scheduleVars, surveyVars, reqVars >>

\* initiate_vapi_call_global and the second commit of the loop body
sweep_call_LeavesDue(e, call_ok) ==
  /\ sweep[e].pc = "call"
  /\ LET r == sweep[e].cur
     IN  /\ IF call_ok /\ config.vapi
              THEN /\ refs' = [refs EXCEPT ![r].call_id = "call"]
                   /\ placed' = [placed EXCEPT ![r] = @ + 1]
              ELSE /\ refs' = [refs EXCEPT ![r].status = "failed",
                                           ![r].callback_status = "completed",
                                           ![r].notes = Append(@, "Callback failed")]
                   /\ placed' = placed
         /\ sweep' = [sweep EXCEPT ![e].pc = "loop", ![e].cur = 0, ![e].due = @ \ {r}]
         /\ last' = [Record("sweep_call", r) EXCEPT
                       !.result = IF call_ok /\ config.vapi THEN "ok" ELSE "error"]
  /\ UNCHANGED << candStatus, config, now, pureVars, raceVars, scheduleVars, surveyVars, reqVars >>

sweep_call(e, call_ok) ==
  /\ sweep[e].pc = "call"
  /\ LET r == sweep[e].cur
     IN  /\ IF call_ok /\ config.vapi
              THEN /\ refs' = [refs EXCEPT ![r].call_id = "call",
                                           ![r].callback_status = "completed"]
                   /\ placed' = [placed EXCEPT ![r] = @ + 1]
              ELSE /\ refs' = [refs EXCEPT ![r].status = "failed",
                                           ![r].callback_status = "completed",
                                           ![r].notes = Append(@, "Callback failed")]
                   /\ placed' = placed
         /\ sweep' = [sweep EXCEPT ![e].pc = "loop", ![e].cur = 0, ![e].due = @ \ {r}]
         /\ last' = [Record("sweep_call", r) EXCEPT
                       !.result = IF call_ok /\ config.vapi THEN "ok" ELSE "error"]
  /\ UNCHANGED << candStatus, config, now, pureVars, raceVars, scheduleVars, surveyVars, reqVars >>

\* the expiry query, against the `now` read when the execution began
sweep_expire(e) ==
  /\ sweep[e].pc = "loop"
  /\ sweep[e].due = {}
  /\ refs' = [r \in Refs |->
                IF /\ refs[r].exists
                   /\ refs[r].callback_status \in {"awaiting_reply", "time_proposed"}
                   /\ refs[r].callback_expires_at # Null
                   /\ refs[r].callback_expires_at <= sweep[e].at
                  THEN ExpiredRow(refs[r])
                  ELSE refs[r]]
  /\ sweep' = [sweep EXCEPT ![e] = NoSweep]
  /\ last' = Record("sweep_expire", 0)
  /\ UNCHANGED << placed, candStatus, config, now, pureVars, raceVars, scheduleVars, surveyVars, reqVars >>

\* the clock advances between requests
Tick ==
  /\ now + TickHours <= MaxTicks * TickHours
  /\ now' = now + TickHours
  /\ last' = NoLast
  /\ UNCHANGED << refs, candStatus, config, pureVars, raceVars, scheduleVars, surveyVars, reqVars, sweepVars >>

(***************************************************************************)
(* Token requests: models.ReferenceRequest / models.SurveyRequest          *)
(***************************************************************************)
NumReqs ==
  2

MaxTokenTicks ==
  3

\* timedelta(days=7) of a new request
TokenExpiryDays ==
  7

TokenExpiryHours ==
  TokenExpiryDays * 24

\* granularity of the clock for token requests: half the token lifetime
TokenTickHours ==
  TokenExpiryHours \div 2

Reqs ==
  1..NumReqs

FirstReq ==
  {1}

NoRequest ==
  [exists |-> FALSE, status |-> "pending", expires_at |-> Null]

NoCheck ==
  [ req |-> 0, route |-> "none", valid |-> FALSE, pre_status |-> "",
    memory_status |-> "", at |-> 0, expires_at |-> Null, raised |-> FALSE ]

\* is_valid(): the return value and the status it leaves on the object
\* is_valid() looking at the expiry time only
is_valid_IgnoresStatus(row, t) ==
  IF t > row.expires_at
    THEN [valid |-> FALSE, status |-> IF row.status = "pending" THEN "expired" ELSE row.status]
    ELSE [valid |-> TRUE, status |-> row.status]

is_valid_ExpiresAtBoundary(row, t) ==
  IF row.status # "pending" THEN [valid |-> FALSE, status |-> row.status]
  ELSE IF t >= row.expires_at THEN [valid |-> FALSE, status |-> "expired"]
  ELSE [valid |-> TRUE, status |-> row.status]

is_valid(row, t) ==
  IF row.status # "pending" THEN [valid |-> FALSE, status |-> row.status]
  ELSE IF t > row.expires_at THEN [valid |-> FALSE, status |-> "expired"]
  ELSE [valid |-> TRUE, status |-> row.status]

Checked(q, route, check) ==
  [ req |-> q, route |-> route, valid |-> check.valid,
    pre_status |-> reqs[q].status, memory_status |-> check.status,
    at |-> now, expires_at |-> reqs[q].expires_at, raised |-> FALSE ]

send_request_KeepsPending(q, email_ok) ==
  /\ ~ reqs[q].exists
  /\ reqs' = [reqs EXCEPT ![q] =
                 [exists |-> TRUE,
                  status |-> IF email_ok THEN "pending" ELSE "expired",
                  expires_at |-> now + TokenExpiryHours]]
  /\ lastCheck' = NoCheck
  /\ UNCHANGED << now, pureVars, raceVars, scheduleVars, surveyVars, refVars, sweepVars >>

\* send_reference_request / send_survey: expire the pending requests, add one
send_request(q, email_ok) ==
  /\ ~ reqs[q].exists
  /\ reqs' = [p \in Reqs |->
                IF p = q
                  THEN [exists |-> TRUE,
                        status |-> IF email_ok THEN "pending" ELSE "expired",
                        expires_at |-> now + TokenExpiryHours]
                ELSE IF reqs[p].exists /\ reqs[p].status = "pending"
                  THEN [reqs[p] EXCEPT !.status = "expired"]
                ELSE reqs[p]]
  /\ lastCheck' = NoCheck
  /\ UNCHANGED << now, pureVars, raceVars, scheduleVars, surveyVars, refVars, sweepVars >>

\* app.submit_references_form / app.survey_form: GET with the token
token_form(q) ==
  /\ reqs[q].exists
  /\ LET check == is_valid(reqs[q], now)
     IN  /\ reqs' = [reqs EXCEPT ![q].status = check.status]
         /\ lastCheck' = Checked(q, "app.form", check)
  /\ UNCHANGED << now, pureVars, raceVars, scheduleVars, surveyVars, refVars, sweepVars >>

\* app.submit_references / app.submit_survey: POST with the token
token_submit(q, accepted) ==
  /\ reqs[q].exists
  /\ LET check == is_valid(reqs[q], now)
     IN  /\ reqs' = [reqs EXCEPT ![q].status =
                       IF check.valid /\ accepted THEN "completed" ELSE check.status]
         /\ lastCheck' = Checked(q, "app.submit", check)
  /\ UNCHANGED << now, pureVars, raceVars, scheduleVars, surveyVars, refVars, sweepVars >>

\* app.submit_references: the candidate's form adds the references in `added`
submit_references(q, added) ==
  /\ reqs[q].exists
  /\ \A r \in added : ~ refs[r].exists
  /\ LET check == is_valid(reqs[q], now)
     IN  /\ lastCheck' = Checked(q, "app.submit_references", check)
         /\ IF ~ check.valid
              THEN /\ reqs' = [reqs EXCEPT ![q].status = check.status]
                   /\ refs' = refs
                   /\ last' = [Record("submit_references", 0) EXCEPT !.result = "expired"]
            ELSE IF added = {}
              THEN /\ reqs' = reqs
                   /\ refs' = refs
                   /\ last' = [Record("submit_references", 0) EXCEPT !.result = "empty"]
            ELSE /\ reqs' = [reqs EXCEPT ![q].status = "completed"]
                 /\ refs' = [r \in Refs |-> IF r \in added THEN NewReference ELSE refs[r]]
                 /\ last' = [Record("submit_references", 0) EXCEPT !.result = "ok"]
  /\ UNCHANGED << candStatus, config, now, pureVars, raceVars, scheduleVars, surveyVars, sweepVars >>

\* app/views/public.py submit_references_form / submit_survey_form: the
\* session is discarded without a commit when the request is not valid
public_token_form(q) ==
  /\ reqs[q].exists
  /\ LET check == is_valid(reqs[q], now)
     IN  lastCheck' = Checked(q, "public.form", check)
  /\ UNCHANGED << reqs, now, pureVars, raceVars, scheduleVars, surveyVars, refVars, sweepVars >>

\* app/views/public.py submit_references / submit_survey
public_token_submit(q) ==
  /\ reqs[q].exists
  /\ LET check == is_valid(reqs[q], now)
     IN  /\ reqs' = IF check.valid THEN [reqs EXCEPT ![q].status = "completed"] ELSE reqs
         /\ lastCheck' = Checked(q, "public.submit", check)
  /\ UNCHANGED << now, pureVars, raceVars, scheduleVars, surveyVars, refVars, sweepVars >>

\* Candidate.get_reference_request_status: is_valid() on a read-only route
get_reference_request_status(q) ==
  /\ reqs[q].exists
  /\ reqs[q].status = "pending"
  /\ LET check == is_valid(reqs[q], now)
     IN  lastCheck' = Checked(q, "status", check)
  /\ UNCHANGED << reqs, now, pureVars, raceVars, scheduleVars, surveyVars, refVars, sweepVars >>

TokenTick ==
  /\ now + TokenTickHours <= MaxTokenTicks * TokenTickHours
  /\ now' = now + TokenTickHours
  /\ UNCHANGED << lastCheck, reqs, pureVars, raceVars, scheduleVars, surveyVars, refVars, sweepVars >>

(***************************************************************************)
(* Phone numbers: services.format_phone_e164                               *)
(***************************************************************************)
MaxPhoneDigits ==
  12

DigitChars ==
  {"0", "1", "2", "3", "4", "5", "6", "7", "8", "9"}

\* \D of the regular expression
IsDigit(c) ==
  c \in DigitChars

Phone_Local10 ==
  <<"5","5","5","1","2","3","4","5","6","7">>

Phone_National11 ==
  <<"1","5","5","5","1","2","3","4","5","6","7">>

Phone_E164 ==
  <<"+","1","5","5","5","1","2","3","4","5","6","7">>

Phone_NonUS12 ==
  <<"4","4","5","5","5","1","2","3","4","5","6","7">>

PhonePrefixes ==
  { <<>>, <<"+">>, <<"(">>, <<"+", "1", " ">> }

\* n digits, the first one `lead`
DigitRun(n, lead) ==
  [i \in 1..n |-> IF i = 1 THEN lead ELSE "5"]

\* the digits with a dash after the first k of them, when there are that many
WithDash(d, k) ==
  IF k = 0 \/ k > Len(d) THEN d ELSE SubSeq(d, 1, k) \o <<"-">> \o SubSeq(d, k + 1, Len(d))

PhoneInputs ==
  { Phone_Local10, Phone_National11, Phone_E164, Phone_NonUS12 }
  \cup { pre \o WithDash(DigitRun(n, lead), k) :
           pre \in PhonePrefixes, n \in 0..MaxPhoneDigits, lead \in {"1", "4"}, k \in {0, 3} }

startswith(s, prefix) ==
  /\ Len(s) >= Len(prefix)
  /\ SubSeq(s, 1, Len(prefix)) = prefix

format_phone_e164_NoCountryCode(phone_number) ==
  LET digits == SelectSeq(phone_number, IsDigit)
  IN  IF Len(digits) >= 10 THEN <<"+">> \o digits
      ELSE IF ~ startswith(phone_number, <<"+">>) THEN <<"+">> \o digits
      ELSE phone_number

format_phone_e164(phone_number) ==
  LET digits == SelectSeq(phone_number, IsDigit)
  IN  IF Len(digits) = 10 THEN <<"+", "1">> \o digits
      ELSE IF Len(digits) = 11 /\ startswith(digits, <<"1">>) THEN <<"+">> \o digits
      ELSE IF Len(digits) >= 11 THEN <<"+">> \o digits
      ELSE IF ~ startswith(phone_number, <<"+">>) THEN <<"+">> \o digits
      ELSE phone_number

\* the number is formatted
FormatPhone ==
  /\ phone.stage = "input"
  /\ phone' = [phone EXCEPT !.stage = "formatted", !.output = format_phone_e164(phone.input)]
  /\ UNCHANGED << scoreInput, scoreOutput, now, refVars, reqVars, sweepVars, raceVars, scheduleVars, surveyVars >>

\* the formatted number is formatted again
FormatPhoneAgain ==
  /\ phone.stage = "formatted"
  /\ phone' = [phone EXCEPT !.stage = "reformatted", !.again = format_phone_e164(phone.output)]
  /\ UNCHANGED << scoreInput, scoreOutput, now, refVars, reqVars, sweepVars, raceVars, scheduleVars, surveyVars >>

(***************************************************************************)
(* Surveys: app.send_survey, app.submit_survey, app.views.public           *)
(***************************************************************************)
ResponseTypes ==
  {"rating", "multiple_choice", "free_text", "yes_no_maybe"}

Question(response_type, required) ==
  [response_type |-> response_type, required |-> required]

\* the question lists an operator sends
QuestionSets ==
  { << Question("rating", TRUE), Question("free_text", FALSE) >>,
    << Question("free_text", FALSE), Question("multiple_choice", TRUE) >>,
    << Question("free_text", TRUE) >>,
    << Question("yes_no_maybe", TRUE) >> }

\* what a form field or a JSON value can hold: nothing, a blank, an answer
Value_Empty ==
  <<>>

Value_Blank ==
  <<" ">>

Value_Four ==
  <<"4">>

FormValues ==
  {Value_Empty, Value_Blank, Value_Four}

\* the forms a reference can post for a list of questions
FormsFor(questions) ==
  [1..Len(questions) -> FormValues]

\* what analyze_survey_responses returns: None, or a dict with a score
SurveyAnalyses ==
  {Null, 80}

NoSurvey ==
  [ exists |-> FALSE, status |-> "pending", expires_at |-> Null, questions |-> <<>>,
    responses |-> {}, survey_score |-> Null ]

NoSubmission ==
  [ op |-> "none", ref |-> 0, result |-> "", form |-> <<>>, keys |-> {},
    completed_at_analysis |-> FALSE, analysis |-> Null ]

SurveyIdle ==
  /\ surveys = [r \in Refs |-> NoSurvey]
  /\ lastSurvey = NoSubmission

\* POST .../survey/send with a reference that has an email and a non-empty
\* list of questions: the request is committed pending, then the email is sent
send_survey(r, questions, email_ok) ==
  /\ refs[r].exists
  /\ ~ surveys[r].exists
  /\ surveys' = [surveys EXCEPT ![r] =
                   [NoSurvey EXCEPT !.exists = TRUE,
                                    !.status = IF email_ok THEN "pending" ELSE "expired",
                                    !.expires_at = now + TokenExpiryHours,
                                    !.questions = questions]]
  /\ refs' = IF email_ok THEN [refs EXCEPT ![r].survey_status = "pending"] ELSE refs
  /\ last' = [Record("send_survey", r) EXCEPT !.result = IF email_ok THEN "ok" ELSE "error"]
  /\ lastSurvey' = NoSubmission
  /\ UNCHANGED << candStatus, config, now, pureVars, scheduleVars, raceVars, reqVars, sweepVars >>

\* int(rating) raises ValueError unless the text is a number
is_int(v) ==
  strip(v) # <<>> /\ \A i \in 1..Len(strip(v)) : IsDigit(strip(v)[i])

\* response_data of app.submit_survey for one question: the field it fills
\* and the value, the empty text standing for a missing or falsy value
response_data(question, v) ==
  CASE question.response_type = "rating" ->
         [field |-> "rating", value |-> v]
    [] question.response_type = "multiple_choice" ->
         [field |-> "selected_option", value |-> v]
    [] question.response_type = "free_text" ->
         [field |-> "text_response", value |-> strip(v)]
    [] OTHER ->
         [field |-> "none", value |-> <<>>]

\* the loop of app.submit_survey stops at this question
raises(question, v) ==
  question.response_type = "rating" /\ v # <<>> /\ ~ is_int(v)

missing(question, v) ==
  question.required /\ response_data(question, v).value = <<>>

\* the questions at which the loop returns or raises, the first one counts
Stops(questions, form) ==
  { i \in 1..Len(questions) : raises(questions[i], form[i]) \/ missing(questions[i], form[i]) }

First(S) ==
  CHOOSE i \in S : \A j \in S : i <= j

\* the SurveyResponse rows the loop has added to the session before question n
Added(questions, form, n) ==
  { [question |-> i, field |-> response_data(questions[i], form[i]).field,
     value |-> response_data(questions[i], form[i]).value] :
      i \in { j \in 1..(n - 1) : response_data(questions[j], form[j]).value # <<>> } }

rejected_row_KeepsAdded(row, added) ==
  [row EXCEPT !.responses = added]

\* return render_template(..., error=...) without a commit: the session is
\* rolled back when the request ends
rejected_row(row, added) ==
  row

SurveyCompletedRow_Scores(row) ==
  [row EXCEPT !.survey_status = "completed", !.status = "completed", !.score = 50]

\* reference.survey_status = 'completed'
SurveyCompletedRow(row) ==
  [row EXCEPT !.survey_status = "completed"]

Submission(op, r, form, keys) ==
  [NoSubmission EXCEPT !.op = op, !.ref = r, !.form = form, !.keys = keys]

\* POST /submit-survey/<token> of app.py
submit_survey(r, form, analysis) ==
  /\ surveys[r].exists
  /\ form \in FormsFor(surveys[r].questions)
  /\ LET row == surveys[r]
         check == is_valid(row, now)
         stops == Stops(row.questions, form)
         sub == Submission("app.submit_survey", r, form, DOMAIN form)
     IN
     IF ~ check.valid
       THEN /\ analysis = Null
            /\ surveys' = [surveys EXCEPT ![r].status = check.status]
            /\ refs' = refs
            /\ lastSurvey' = [sub EXCEPT !.result = "expired"]
     ELSE IF stops # {}
       THEN /\ analysis = Null
            /\ surveys' = [surveys EXCEPT ![r] =
                             rejected_row(row, Added(row.questions, form, First(stops)))]
            /\ refs' = refs
            /\ lastSurvey' = [sub EXCEPT !.result =
                                IF raises(row.questions[First(stops)], form[First(stops)])
                                  THEN "error" ELSE "rejected"]
     ELSE /\ surveys' = [surveys EXCEPT ![r] =
                           [row EXCEPT !.status = "completed",
                                       !.responses = Added(row.questions, form,
                                                           Len(row.questions) + 1),
                                       !.survey_score = analysis]]
          /\ refs' = [refs EXCEPT ![r] = SurveyCompletedRow(@)]
          /\ lastSurvey' = [sub EXCEPT !.result = "accepted",
                                       !.completed_at_analysis = TRUE,
                                       !.analysis = analysis]
  /\ last' = Record("submit_survey", r)
  /\ UNCHANGED << candStatus, config, now, pureVars, scheduleVars, raceVars, reqVars, sweepVars >>

\* the response the package's view stores for a posted value
public_response(question, i, v) ==
  [ question |-> i,
    field |-> IF question.response_type = "rating" THEN "rating"
              ELSE IF question.response_type \in {"multiple_choice", "yes_no_maybe"}
                THEN "selected_option"
              ELSE "text_response",
    value |-> v ]

\* POST /submit-survey/<token> of app/views/public.py, with the JSON object
\* 'responses' holding the questions in keys
public_submit_survey(r, form, keys, analysis) ==
  /\ surveys[r].exists
  /\ form \in FormsFor(surveys[r].questions)
  /\ keys \subseteq DOMAIN form
  /\ LET row == surveys[r]
         check == is_valid(row, now)
         sub == Submission("public.submit_survey", r, form, keys)
         stops == { i \in keys : raises(row.questions[i], form[i]) }
     IN
     IF ~ check.valid
       THEN /\ analysis = Null
            /\ UNCHANGED << surveys, refs >>
            /\ lastSurvey' = [sub EXCEPT !.result = "expired"]
     ELSE IF stops # {}
       THEN /\ analysis = Null
            /\ UNCHANGED << surveys, refs >>
            /\ lastSurvey' = [sub EXCEPT !.result = "error"]
     ELSE /\ surveys' = [surveys EXCEPT ![r] =
                           [row EXCEPT !.status = "completed",
                                       !.responses =
                                         { public_response(row.questions[i], i, form[i]) :
                                             i \in keys },
                                       !.survey_score = analysis]]
          /\ refs' = refs
          /\ lastSurvey' = [sub EXCEPT !.result = "accepted",
                                       !.completed_at_analysis =
                                         (refs[r].survey_status = "completed"),
                                       !.analysis = analysis]
  /\ last' = Record("public_submit_survey", r)
  /\ UNCHANGED << candStatus, config, now, pureVars, scheduleVars, raceVars, reqVars, sweepVars >>

(***************************************************************************)
(* Scorer applied to an analysis                                           *)
(***************************************************************************)
ScoreAnalysis ==
  /\ scoreOutput = Null
  /\ scoreOutput' = calculate_verification_score(scoreInput)
  /\ UNCHANGED << scoreInput, phone, now, refVars, reqVars, sweepVars, raceVars, scheduleVars, surveyVars >>

(***************************************************************************)
(* Specifications                                                          *)
(***************************************************************************)
ScoreIdle ==
  /\ scoreInput = Analysis_Weak
  /\ scoreOutput = Null

RefsIdle ==
  /\ refs = [r \in Refs |-> NoReference]
  /\ candStatus = "intake"
  /\ last = NoLast

ReqsIdle ==
  /\ reqs = [q \in Reqs |-> NoRequest]
  /\ lastCheck = NoCheck

SweepIdle ==
  /\ sweep = [e \in Sweepers |-> NoSweep]
  /\ placed = [r \in Refs |-> 0]

\* no follow-up call is scheduled
ScheduleIdle ==
  scheduled_time = [r \in Refs |-> Null]

RaceIdle ==
  /\ conv = [r \in Refs |-> <<>>]
  /\ hooks = [h \in Hooks |-> NoHook]
  /\ logged = [r \in Refs |-> {}]
  /\ received = 0

PhoneOf(number) ==
  [stage |-> "input", input |-> number, output |-> <<>>, again |-> <<>>]

PhoneIdle ==
  phone = PhoneOf(<<>>)

\* every provider credential set, the candidate with a work history
Configured ==
  [twilio |-> TRUE, vapi |-> TRUE, has_job |-> TRUE, ref_job |-> FALSE]

\* the handlers, for the references in the slots R
NextOn(R) ==
  \/ \E r \in R : add_reference(r)
  \/ \E r \in R : delete_reference(r)
  \/ \E r \in R, st \in ReferenceStatuses : update_reference(r, st)
  \/ \E st \in CandidateStatuses : update_candidate(st)
  \/ \E r \in R : schedule_reference_call(r)
  \/ \E r \in R, ok \in BOOLEAN : send_reference_sms(r, ok)
  \/ \E r \in R, ok \in BOOLEAN : start_reference_check(r, ok)
  \/ \E ok \in [Refs -> BOOLEAN] : start_outreach(ok)
  \/ \E r \in R, cd \in PollResponses : check_call_status(r, cd)
  \/ \E r \in R, b \in SmsBodies : sms_webhook(r, b)
  \/ \E ok \in [Refs -> BOOLEAN] : process_scheduled_callbacks(ok)

\* one Candidate with one Reference, the clock running
Init ==
  /\ now = 0
  /\ config = Configured
  /\ RefsIdle
  /\ ScoreIdle
  /\ ReqsIdle
  /\ PhoneIdle
  /\ SweepIdle
  /\ SurveyIdle
  /\ RaceIdle
  /\ ScheduleIdle

Next ==
  \/ NextOn(FirstRef)
  \/ Tick

Spec ==
  Init /\ [][Next]_vars

\* one Candidate with two References, no SMS channel, the clock stopped
InitRollup ==
  /\ now = 0
  /\ config = [Configured EXCEPT !.twilio = FALSE]
  /\ RefsIdle
  /\ ScoreIdle
  /\ ReqsIdle
  /\ PhoneIdle
  /\ SweepIdle
  /\ SurveyIdle
  /\ RaceIdle
  /\ ScheduleIdle

NextRollup ==
  NextOn(Refs)

SpecRollup ==
  InitRollup /\ [][NextRollup]_vars

\* the routes of the calls blueprint on the same rows
NextBlueprint ==
  \/ \E r \in Refs : add_reference(r)
  \/ \E r \in Refs, ok \in BOOLEAN : bp_start_reference_check(r, ok)
  \/ \E r \in Refs, cd \in PollResponses : check_status(r, cd)

SpecBlueprint ==
  InitRollup /\ [][NextBlueprint]_vars

\* the candidate's self-service intake next to the operator's calls
NextIntake ==
  \/ \E q \in FirstReq, ok \in BOOLEAN : send_request(q, ok)
  \/ \E q \in FirstReq, added \in SUBSET Refs : submit_references(q, added)
  \/ \E r \in Refs : add_reference(r)
  \/ \E r \in Refs, ok \in BOOLEAN : start_reference_check(r, ok)
  \/ \E r \in Refs, cd \in PollResponses : check_call_status(r, cd)

SpecIntake ==
  InitRollup /\ [][NextIntake]_vars

\* the work histories a Candidate can have: a Reference linked to one of the
\* jobs, jobs but no link, no job at all
JobConfigs ==
  { [Configured EXCEPT !.ref_job = TRUE],
    Configured,
    [Configured EXCEPT !.has_job = FALSE] }

InitJob ==
  /\ now = 0
  /\ config \in JobConfigs
  /\ RefsIdle
  /\ ScoreIdle
  /\ ReqsIdle
  /\ PhoneIdle
  /\ SweepIdle
  /\ SurveyIdle
  /\ RaceIdle
  /\ ScheduleIdle

NextJob ==
  \/ \E r \in FirstRef : add_reference(r)
  \/ \E r \in FirstRef, ok \in BOOLEAN : start_reference_check(r, ok)
  \/ \E ok \in [Refs -> BOOLEAN] : start_outreach(ok)
  \/ \E r \in FirstRef, cd \in PollResponses : check_call_status(r, cd)
  \/ \E r \in FirstRef, b \in SmsBodies : sms_webhook(r, b)
  \/ \E ok \in [Refs -> BOOLEAN] : process_scheduled_callbacks(ok)
  \/ Tick

SpecJob ==
  InitJob /\ [][NextJob]_vars

\* the process starts again and reads the provider credentials from its
\* environment; the database keeps the rows
Environments ==
  { Configured,
    [Configured EXCEPT !.vapi = FALSE],
    [Configured EXCEPT !.twilio = FALSE] }

restart(env) ==
  /\ config # env
  /\ config' = env
  /\ last' = Record("restart", 0)
  /\ UNCHANGED << refs, candStatus, now, pureVars, raceVars, scheduleVars, surveyVars, reqVars, sweepVars >>

NextConfig ==
  \/ \E r \in FirstRef : add_reference(r)
  \/ \E r \in FirstRef, ok \in BOOLEAN : start_reference_check(r, ok)
  \/ \E ok \in [Refs -> BOOLEAN] : start_outreach(ok)
  \/ \E r \in FirstRef, cd \in PollResponses : check_call_status(r, cd)
  \/ \E r \in FirstRef, b \in SmsBodies : sms_webhook(r, b)
  \/ \E ok \in [Refs -> BOOLEAN] : process_scheduled_callbacks(ok)
  \/ \E env \in Environments : restart(env)
  \/ Tick

SpecConfig ==
  Init /\ [][NextConfig]_vars

\* one Reference polled with and without an SMS channel, the clock stopped
InitNoAnswer ==
  /\ now = 0
  /\ config \in {Configured, [Configured EXCEPT !.twilio = FALSE]}
  /\ RefsIdle
  /\ ScoreIdle
  /\ ReqsIdle
  /\ PhoneIdle
  /\ SweepIdle
  /\ SurveyIdle
  /\ RaceIdle
  /\ ScheduleIdle

NextNoAnswer ==
  \/ \E r \in FirstRef : add_reference(r)
  \/ \E r \in FirstRef, st \in ReferenceStatuses : update_reference(r, st)
  \/ \E r \in FirstRef, ok \in BOOLEAN : send_reference_sms(r, ok)
  \/ \E r \in FirstRef, ok \in BOOLEAN : start_reference_check(r, ok)
  \/ \E r \in FirstRef, cd \in PollResponses : check_call_status(r, cd)
  \/ \E r \in FirstRef, b \in SmsBodies : sms_webhook(r, b)

SpecNoAnswer ==
  InitNoAnswer /\ [][NextNoAnswer]_vars

\* the callback flow of one Reference, the sweep running step by step
NextCallback ==
  \/ \E r \in FirstRef : add_reference(r)
  \/ \E r \in FirstRef, ok \in BOOLEAN : start_reference_check(r, ok)
  \/ \E r \in FirstRef, cd \in PollResponses : check_call_status(r, cd)
  \/ \E r \in FirstRef, b \in SmsBodies : sms_webhook(r, b)
  \/ \E e \in FirstSweeper : sweep_begin(e)
  \/ \E e \in FirstSweeper, r \in FirstRef : sweep_mark(e, r)
  \/ \E e \in FirstSweeper, ok \in BOOLEAN : sweep_call(e, ok)
  \/ \E e \in FirstSweeper : sweep_expire(e)
  \/ Tick

SpecCallback ==
  Init /\ [][NextCallback]_vars

\* a Reference whose callback was confirmed for the hour t
ConfirmedRow(t) ==
  [NewReference EXCEPT !.status = "no_answer",
                       !.notes = <<"Call unsuccessful">>,
                       !.sms_sent = TRUE,
                       !.call_id = "call",
                       !.callback_status = "confirmed",
                       !.callback_expires_at = CallbackExpiryHours,
                       !.callback_scheduled_time = t]

\* a Reference whose callback request was not answered
AwaitingRow ==
  [ConfirmedRow(Null) EXCEPT !.callback_status = "awaiting_reply"]

\* a Reference whose call was completed and scored
ScoredRow(score) ==
  [NewReference EXCEPT !.status = "completed", !.call_id = "call", !.score = score]

\* a Reference surveyed at any point of its call flow, next to a sibling
\* whose call was scored
InitSurvey ==
  /\ now = 0
  /\ config = Configured
  /\ refs \in [Refs -> {NoReference, AwaitingRow, ScoredRow(100), ScoredRow(75)}]
  /\ refs[1] # ScoredRow(75)
  /\ refs[2] = ScoredRow(75)
  /\ candStatus = "in_progress"
  /\ last = NoLast
  /\ ScoreIdle
  /\ ReqsIdle
  /\ PhoneIdle
  /\ SweepIdle
  /\ SurveyIdle
  /\ RaceIdle
  /\ ScheduleIdle

AllForms ==
  UNION { FormsFor(questions) : questions \in QuestionSets }

NextSurvey ==
  \/ \E r \in FirstRef : add_reference(r)
  \/ \E r \in FirstRef, questions \in QuestionSets, ok \in BOOLEAN :
       send_survey(r, questions, ok)
  \/ \E r \in FirstRef, form \in AllForms, analysis \in SurveyAnalyses :
       submit_survey(r, form, analysis)
  \/ \E r \in FirstRef, form \in AllForms, keys \in SUBSET (1..2),
         analysis \in SurveyAnalyses :
       public_submit_survey(r, form, keys, analysis)

SpecSurvey ==
  InitSurvey /\ [][NextSurvey]_vars

\* scheduled follow-up calls: the operator schedules and fires calls, the
\* sweep runs again and again, and the clock advances
NextSchedule ==
  \/ \E r \in FirstRef : add_reference(r)
  \/ \E r \in FirstRef : delete_reference(r)
  \/ \E r \in FirstRef, t \in ScheduleTimes : schedule_reference_call_at(r, t)
  \/ \E r \in FirstRef, ok \in BOOLEAN : start_reference_check(r, ok)
  \/ \E r \in FirstRef, cd \in PollResponses : check_call_status(r, cd)
  \/ \E ok \in [Refs -> BOOLEAN] : process_scheduled_callbacks(ok)
  \/ Tick

\* the scheduler calls the sweep endpoint every minute, and time passes
SpecSchedule ==
  /\ Init
  /\ [][NextSchedule]_vars
  /\ WF_vars(\E ok \in [Refs -> BOOLEAN] : process_scheduled_callbacks(ok))
  /\ WF_vars(Tick)

\* the callback flow of one Reference with the scheduler at work: the sweep
\* is executed again and again, and time passes
NextNegotiation ==
  \/ \E r \in FirstRef : add_reference(r)
  \/ \E r \in FirstRef, ok \in BOOLEAN : start_reference_check(r, ok)
  \/ \E r \in FirstRef, cd \in PollResponses : check_call_status(r, cd)
  \/ \E r \in FirstRef, b \in SmsBodies : sms_webhook(r, b)
  \/ \E ok \in [Refs -> BOOLEAN] : process_scheduled_callbacks(ok)
  \/ Tick

SpecNegotiation ==
  /\ Init
  /\ [][NextNegotiation]_vars
  /\ WF_vars(\E ok \in [Refs -> BOOLEAN] : process_scheduled_callbacks(ok))
  /\ WF_vars(Tick)

\* two References in the callback flow, two executions of the sweep
InitSweep ==
  /\ now = TickHours
  /\ config = Configured
  /\ refs \in [Refs -> {ConfirmedRow(TickHours), ConfirmedRow(2 * TickHours), AwaitingRow}]
  /\ candStatus = "completed"
  /\ last = NoLast
  /\ ScoreIdle
  /\ ReqsIdle
  /\ PhoneIdle
  /\ SweepIdle
  /\ SurveyIdle
  /\ RaceIdle
  /\ ScheduleIdle

NextSweep ==
  \/ \E e \in Sweepers : sweep_begin(e)
  \/ \E e \in Sweepers, r \in Refs : sweep_mark(e, r)
  \/ \E e \in Sweepers, ok \in BOOLEAN : sweep_call(e, ok)
  \/ \E e \in Sweepers : sweep_expire(e)
  \/ Tick

SpecSweep ==
  InitSweep /\ [][NextSweep]_vars

\* one Reference waiting for a reply to the callback request, two webhook
\* requests and the sweep at work on it
InitRace ==
  /\ now = TickHours
  /\ config = Configured
  /\ refs = [r \in Refs |-> IF r \in FirstRef THEN AwaitingRow ELSE NoReference]
  /\ candStatus = "completed"
  /\ last = NoLast
  /\ ScoreIdle
  /\ ReqsIdle
  /\ PhoneIdle
  /\ SweepIdle
  /\ SurveyIdle
  /\ conv = [r \in Refs |-> IF r \in FirstRef THEN <<Message("outbound", 0)>> ELSE <<>>]
  /\ hooks = [h \in Hooks |-> NoHook]
  /\ logged = [r \in Refs |-> IF r \in FirstRef THEN {Message("outbound", 0)} ELSE {}]
  /\ received = 0
  /\ ScheduleIdle

NextRace ==
  \/ \E h \in Hooks, r \in FirstRef, b \in SmsBodies : hook_receive(h, r, b)
  \/ \E h \in Hooks : hook_commit(h)
  \/ \E e \in FirstSweeper : sweep_begin(e)
  \/ \E e \in FirstSweeper, r \in FirstRef : sweep_mark(e, r)
  \/ \E e \in FirstSweeper, ok \in BOOLEAN : sweep_call(e, ok)
  \/ \E e \in FirstSweeper : sweep_expire(e)
  \/ Tick

SpecRace ==
  InitRace /\ [][NextRace]_vars

\* the scorer on every analysis within the bounds
InitScore ==
  /\ now = 0
  /\ config = Configured
  /\ RefsIdle
  /\ ReqsIdle
  /\ PhoneIdle
  /\ SweepIdle
  /\ SurveyIdle
  /\ RaceIdle
  /\ scoreInput \in AnalysisInputs
  /\ scoreOutput = Null
  /\ ScheduleIdle

NextScore ==
  ScoreAnalysis

SpecScore ==
  InitScore /\ [][NextScore]_vars

\* the phone formatter on every number within the bounds
InitPhone ==
  /\ now = 0
  /\ config = Configured
  /\ RefsIdle
  /\ ScoreIdle
  /\ ReqsIdle
  /\ SweepIdle
  /\ SurveyIdle
  /\ RaceIdle
  /\ \E number \in PhoneInputs : phone = PhoneOf(number)
  /\ ScheduleIdle

NextPhone ==
  \/ FormatPhone
  \/ FormatPhoneAgain

SpecPhone ==
  InitPhone /\ [][NextPhone]_vars

\* the token requests
InitToken ==
  /\ now = 0
  /\ config = Configured
  /\ RefsIdle
  /\ ScoreIdle
  /\ ReqsIdle
  /\ PhoneIdle
  /\ SweepIdle
  /\ SurveyIdle
  /\ RaceIdle
  /\ ScheduleIdle

NextToken ==
  \/ \E q \in Reqs, ok \in BOOLEAN : send_request(q, ok)
  \/ \E q \in Reqs : token_form(q)
  \/ \E q \in Reqs, ok \in BOOLEAN : token_submit(q, ok)
  \/ \E q \in Reqs : public_token_form(q)
  \/ \E q \in Reqs : public_token_submit(q)
  \/ \E q \in Reqs : get_reference_request_status(q)
  \/ TokenTick

SpecToken ==
  InitToken /\ [][NextToken]_vars

\* the token links of one Candidate and one Reference: the requests are sent,
\* opened and submitted through both sets of routes, while time passes
SurveyQuestions ==
  { << Question("free_text", TRUE) >> }

SurveyForms ==
  UNION { FormsFor(questions) : questions \in SurveyQuestions }

NextSingleUse ==
  \/ \E q \in FirstReq, ok \in BOOLEAN : send_request(q, ok)
  \/ \E q \in FirstReq : token_form(q)
  \/ \E q \in FirstReq : public_token_form(q)
  \/ \E q \in FirstReq : public_token_submit(q)
  \/ \E q \in FirstReq, added \in SUBSET FirstRef : submit_references(q, added)
  \/ \E r \in FirstRef, questions \in SurveyQuestions, ok \in BOOLEAN :
       send_survey(r, questions, ok)
  \/ \E r \in FirstRef, form \in SurveyForms, analysis \in SurveyAnalyses :
       submit_survey(r, form, analysis)
  \/ \E r \in FirstRef, form \in SurveyForms, keys \in SUBSET (1..1),
         analysis \in SurveyAnalyses :
       public_submit_survey(r, form, keys, analysis)
  \/ TokenTick

SpecSingleUse ==
  InitToken /\ [][NextSingleUse]_vars

TypeOK ==
  /\ now \in Nat
  /\ candStatus \in CandidateStatuses
  /\ \A r \in Refs : refs[r].status \in ReferenceStatuses
  /\ \A r \in Refs : refs[r].callback_status \in CallbackStatuses

(***************************************************************************)
(* Properties                                                              *)
(***************************************************************************)
Clamp(lo, hi, x) ==
  Max(lo, Min(hi, x))

Tri(v, if_true, if_false) ==
  IF v = "true" THEN if_true ELSE IF v = "false" THEN if_false ELSE 0

SentimentWeight(s) ==
  CASE s = "very_positive" -> 10
    [] s = "positive" -> 5
    [] s = "negative" -> 0 - 15
    [] s = "very_negative" -> 0 - 25
    [] OTHER -> 0

ReferenceScore(sd) ==
  Clamp(0, 100,
        50 + Tri(sd.employment_confirmed, 15, 0 - 30)
           + Tri(sd.dates_accurate, 10, 0 - 20)
           + Tri(sd.title_confirmed, 10, 0 - 15)
           + Tri(sd.would_rehire, 15, 0 - 25)
           + Min(5 * Len(sd.achievements_verified), 15)
           - 8 * Len(sd.achievements_not_verified)
           - 10 * Len(sd.discrepancies)
           - 7 * Len(sd.red_flags)
           + Min(3 * Len(sd.positive_signals), 10)
           + SentimentWeight(sd.overall_sentiment))

\* C1: for every analysis input, calculate_verification_score returns an
\* integer in the range 0..100.
C1_ScoreInRange ==
  scoreOutput # Null => scoreOutput \in 0..100

\* an analysis whose adjustments sum below zero has been scored
C1_Witness ==
  /\ scoreOutput = 0
  /\ scoreInput.employment_confirmed = "false"
  /\ scoreInput.would_rehire = "false"
  /\ scoreInput.overall_sentiment = "very_negative"

\* C2: calculate_verification_score equals the closed form
\* clamp(0, 100, 50 + E + D + T + R + min(5v, 15) - 8n - 10d - 7f + min(3p, 10) + S),
\* clamped once on the final sum.
C2_ScoreIsClosedForm ==
  scoreOutput # Null => scoreOutput = ReferenceScore(scoreInput)

\* an analysis that reaches both caps and a mid-range result has been scored
C2_Witness ==
  /\ scoreOutput # Null
  /\ scoreOutput \in 1..99
  /\ Len(scoreInput.achievements_verified) > 3
  /\ Len(scoreInput.positive_signals) > 3
  /\ Len(scoreInput.discrepancies) > 0

\* the texts a poll can carry, classified once for the properties
ReasonNamesOutcome ==
  [er \in {cd.endedReason : cd \in PollResponses} |->
     \E i \in 1..Len(unsuccessful_reasons) : Contains(unsuccessful_reasons[i], lower(er))]

ReasonHasHangup ==
  [er \in {cd.endedReason : cd \in PollResponses} |-> Contains(hangup, lower(er))]

TranscriptIsShort ==
  [tr \in {cd.transcript : cd \in PollResponses} |-> Len(strip(tr)) < MinTranscriptLen]

\* the last operation was a status poll, by one of the routes, that saw an ended call
EndedPoll(routes) ==
  /\ last.op \in routes
  /\ last.result = "ok"
  /\ last.call_status = Status_Ended

PollRoutes ==
  {"check_call_status", "check_status"}

\* C3: a status poll that observes an ended call with a stripped transcript
\* shorter than 100 characters and no "hangup" in the ended reason leaves the
\* Reference in no_answer.
C3_ShortTranscriptIsNoAnswer ==
  ( /\ EndedPoll(PollRoutes)
    /\ TranscriptIsShort[last.transcript]
    /\ ~ ReasonHasHangup[last.ended_reason] )
  => refs[last.ref].status = "no_answer"

\* C4: a status poll that observes an ended call whose reason contains a token
\* of the unsuccessful-outcome vocabulary leaves the Reference in no_answer,
\* whatever the transcript length and also when the reason contains "hangup".
C4_VocabularyIsNoAnswer ==
  ( /\ EndedPoll(PollRoutes)
    /\ ReasonNamesOutcome[last.ended_reason] )
  => refs[last.ref].status = "no_answer"

\* the classification the claims state
Unsuccessful(reason, transcript) ==
  \/ ReasonNamesOutcome[reason]
  \/ TranscriptIsShort[transcript] /\ ~ ReasonHasHangup[reason]

AffirmativeTokens ==
  { <<"y","e","s">>, <<"y">>, <<"y","e","p">>, <<"y","e","a","h">>, <<"s","u","r","e">>,
    <<"o","k">>, <<"o","k","a","y">>, <<"c","o","n","f","i","r","m">>,
    <<"c","o","n","f","i","r","m","e","d">> }

\* the bodies the webhook can carry, trimmed and lower-cased once
TrimmedLowerBody ==
  [b \in SmsBodies |-> lower(strip(b))]

\* C6: for a Reference in time_proposed, an inbound SMS moves it to confirmed
\* iff its trimmed, lower-cased body is one of the nine affirmative tokens;
\* any other body leaves it in the parse-and-propose states.
C6_OnlyAffirmativeConfirms ==
  (last.op = "sms_webhook" /\ last.pre_callback_status = "time_proposed") =>
    IF TrimmedLowerBody[last.body] \in AffirmativeTokens
      THEN refs[last.ref].callback_status = "confirmed"
      ELSE refs[last.ref].callback_status \in {"awaiting_reply", "time_proposed"}

\* a padded upper-case YES has confirmed a proposed time
C6_Witness ==
  /\ last.op = "sms_webhook"
  /\ last.pre_callback_status = "time_proposed"
  /\ last.body = Body_YesUpperPadded
  /\ refs[last.ref].callback_status = "confirmed"

\* C7: callback_expires_at is 24 hours after the callback-request SMS is sent,
\* and a sweep that runs later than callback_expires_at moves every Reference
\* still in awaiting_reply or time_proposed to expired.
C7_ExpiryHorizon ==
  /\ (last.op = "check_call_status" /\ last.sms_requested) =>
       refs[last.ref].callback_expires_at = now + CallbackExpiryHours
  /\ last.op = "process_scheduled_callbacks" =>
       \A r \in last.overdue : refs[r].callback_status = "expired"

\* a sweep has run after the horizon of a Reference that had a time proposed
C7_Witness ==
  /\ last.op = "process_scheduled_callbacks"
  /\ \E r \in last.overdue :
       /\ refs[r].callback_status = "expired"
       /\ refs[r].callback_scheduled_time # Null
       /\ now > refs[r].callback_expires_at

\* C8: for a pending request past expires_at the first check returns false and
\* the status becomes expired and stays persisted; later checks return false
\* and leave the status at expired.
C8_ExpiredOnFirstCheck ==
  /\ ( /\ lastCheck.req # 0
       /\ lastCheck.pre_status = "pending"
       /\ lastCheck.at > lastCheck.expires_at )
     => (~ lastCheck.valid /\ reqs[lastCheck.req].status = "expired")
  /\ (lastCheck.req # 0 /\ lastCheck.pre_status = "expired")
     => (~ lastCheck.valid /\ reqs[lastCheck.req].status = "expired")

\* C9: is_valid() returns true iff status == pending and now <= expires_at.
C9_ValidIffPendingAndInTime ==
  lastCheck.req # 0 =>
    (lastCheck.valid <=>
       (lastCheck.pre_status = "pending" /\ lastCheck.at <= lastCheck.expires_at))

\* a pending request has been checked at exactly expires_at and found valid
C9_Witness ==
  /\ lastCheck.req # 0
  /\ lastCheck.at = lastCheck.expires_at
  /\ lastCheck.valid

\* C10: Candidate.status flips to completed iff all References are in
\* {completed, failed, no_answer}: a settling poll sets it when they all are,
\* and no other path sets it.
C10_CompletedOnlyByRollup ==
  /\ last.cand_completed =>
       (last.op = "check_call_status" /\ all_done(refs))
  /\ ( /\ last.op = "check_call_status"
       /\ last.result = "ok"
       /\ refs[last.ref].status \in {"completed", "failed", "no_answer"}
       /\ all_done(refs) )
     => candStatus = "completed"

\* C11: adding a new pending Reference, by add_reference or by the candidate's
\* submit_references, leaves Candidate.status unchanged, also when it is
\* already completed.
C11_AddingKeepsCandidateStatus ==
  [][ (\E r \in Refs : ~ refs[r].exists /\ refs'[r].exists) => candStatus' = candStatus ]_vars

\* the candidate's form has added a pending Reference to a completed Candidate
C11_Witness ==
  /\ last.op = "submit_references"
  /\ last.result = "ok"
  /\ candStatus = "completed"
  /\ \E r \in Refs : refs[r].exists /\ refs[r].status = "pending"
  /\ \E r \in Refs : refs[r].exists /\ refs[r].status \in {"completed", "no_answer"}

\* the number of digit characters of a text
DigitCount(s) ==
  Cardinality({i \in 1..Len(s) : s[i] \in DigitChars})

\* the digit characters of a text, in order
RECURSIVE DigitsOf(_)
DigitsOf(s) ==
  IF s = <<>> THEN <<>>
  ELSE IF Head(s) \in DigitChars THEN <<Head(s)>> \o DigitsOf(Tail(s))
  ELSE DigitsOf(Tail(s))

\* C12: format_phone_e164 returns "+1" and the digits for exactly 10 digits,
\* "+" and the digits for 11 or more, otherwise the input itself when it
\* starts with "+" and else "+" and the digits; the four documented examples
\* map as documented, and for 10 or more digits formatting the result again
\* returns it unchanged.
C12_FormatPhone ==
  phone.stage # "input" =>
    /\ phone.output =
         IF DigitCount(phone.input) = 10 THEN <<"+", "1">> \o DigitsOf(phone.input)
         ELSE IF DigitCount(phone.input) >= 11 THEN <<"+">> \o DigitsOf(phone.input)
         ELSE IF phone.input # <<>> /\ phone.input[1] = "+" THEN phone.input
         ELSE <<"+">> \o DigitsOf(phone.input)
    /\ phone.input \in {Phone_Local10, Phone_National11, Phone_E164} => phone.output = Phone_E164
    /\ phone.input = Phone_NonUS12 => phone.output = <<"+">> \o Phone_NonUS12
    /\ (phone.stage = "reformatted" /\ DigitCount(phone.input) >= 10) => phone.again = phone.output

\* a ten-digit number with a dash has been formatted twice
C12_Witness ==
  /\ phone.stage = "reformatted"
  /\ DigitCount(phone.input) = 10
  /\ Len(phone.input) > 10
  /\ phone.again = phone.output
  /\ phone.output[2] = "1"

\* an ended-call poll of the reference r is the step being taken
PollsEnded(r) ==
  /\ last'.op = "check_call_status"
  /\ last'.ref = r
  /\ last'.result = "ok"
  /\ last'.call_status = Status_Ended

\* an inbound message for r, parsed to a time with an assumed time zone
ReceivesAssumedTime(r) ==
  /\ last'.op = "sms_webhook"
  /\ last'.ref = r
  /\ \E p \in last'.parsed :
       /\ ~ p.error
       /\ p.parsed_successfully
       /\ ~ p.needs_clarification
       /\ p.timezone_assumed

\* the six events of the scenario, each from the state the previous one leaves
ScenarioStep(r) ==
  /\ ( /\ refs[r].exists /\ refs[r].status = "pending" /\ refs[r].callback_status = "none"
       /\ last'.op = "start_reference_check" /\ last'.ref = r /\ last'.result = "ok" )
     => ( /\ refs'[r].status = "calling"
          /\ refs'[r].callback_status = "none" )
  /\ ( /\ refs[r].status = "calling" /\ refs[r].callback_status = "none" /\ ~ refs[r].sms_sent
       /\ PollsEnded(r)
       /\ last'.ended_reason = Reason_DidNotAnswer
       /\ last'.transcript = <<>>
       /\ last'.sms_requested )
     => ( /\ refs'[r].status = "no_answer"
          /\ refs'[r].callback_status = "awaiting_reply"
          /\ refs'[r].callback_expires_at = now + CallbackExpiryHours )
  /\ ( /\ refs[r].status = "no_answer" /\ refs[r].callback_status = "awaiting_reply"
       /\ ReceivesAssumedTime(r) )
     => ( /\ refs'[r].status = "no_answer"
          /\ refs'[r].callback_status = "time_proposed" )
  /\ ( /\ refs[r].status = "no_answer" /\ refs[r].callback_status = "time_proposed"
       /\ last'.op = "sms_webhook" /\ last'.ref = r /\ last'.body = Body_Yes )
     => ( /\ refs'[r].status = "no_answer"
          /\ refs'[r].callback_status = "confirmed" )
  /\ ( /\ refs[r].status = "no_answer" /\ refs[r].callback_status = "confirmed"
       /\ refs[r].callback_scheduled_time # Null
       /\ refs[r].callback_scheduled_time <= now
       /\ last'.op = "sweep_begin" )
     => ( /\ refs'[r] = refs[r]
          /\ \E e \in Sweepers : sweep[e].pc = "idle" /\ r \in sweep'[e].due )
  /\ ( /\ refs[r].status = "no_answer" /\ refs[r].callback_status = "confirmed"
       /\ last'.op = "sweep_mark" /\ last'.ref = r )
     => ( /\ refs'[r].status = "calling"
          /\ refs'[r].callback_status = "callback_due" )
  /\ ( /\ refs[r].status = "calling" /\ refs[r].callback_status = "callback_due"
       /\ last'.op = "sweep_call" /\ last'.ref = r /\ last'.result = "ok" )
     => ( /\ refs'[r].status = "calling"
          /\ refs'[r].callback_status = "completed" )
  /\ ( /\ refs[r].status = "calling" /\ refs[r].callback_status = "completed"
       /\ PollsEnded(r) )
     => ( /\ refs'[r].callback_status = "completed"
          /\ refs'[r].status =
               IF Unsuccessful(last'.ended_reason, last'.transcript)
                 THEN "no_answer" ELSE "completed" )

\* C13: from a pending Reference with SMS configured, the events [call placed;
\* poll of an unanswered call with an empty transcript; inbound time with an
\* assumed time zone; inbound "yes"; sweep at or after the scheduled time; poll
\* of the new call] move status and callback_status through pending, calling,
\* no_answer/awaiting_reply (expiry 24 hours ahead), time_proposed, confirmed,
\* callback_due, completed with status calling, and then status completed or
\* no_answer by the classification, each event leading to exactly the next value.
C13_EndToEnd ==
  [][ \A r \in Refs : ScenarioStep(r) ]_vars

\* the call placed by the sweep for a confirmed callback has been polled
C13_Witness ==
  /\ last.op = "check_call_status"
  /\ last.call_status = Status_Ended
  /\ \E r \in Refs :
       /\ last.ref = r
       /\ placed[r] = 1
       /\ refs[r].callback_status = "completed"
       /\ refs[r].callback_scheduled_time # Null
       /\ refs[r].status = "completed"

\* C14: in every reachable state a Reference carries a score only if its
\* status is completed (and its transcript was analysed); no Reference in
\* pending, calling, scheduled, failed or no_answer carries a score.
C14_ScoreOnlyWhenCompleted ==
  \A r \in Refs :
    (refs[r].exists /\ refs[r].score # Null) => refs[r].status = "completed"

\* C15: once a Reference's callback_status is completed or expired, no later
\* step of any handler changes it.
C15_CallbackStatusFrozen ==
  [][ \A r \in Refs :
        ( /\ refs[r].exists
          /\ refs'[r].exists
          /\ refs[r].callback_status \in {"completed", "expired"} )
        => refs'[r].callback_status = refs[r].callback_status ]_vars

\* C16: when executions of the sweep overlap, a Reference already moved out
\* of confirmed by one of them is not processed by the other: at most one
\* outbound call is placed per confirmed callback.
C16_OneCallPerCallback ==
  \A r \in Refs : placed[r] <= 1

\* the step is a step of the sweep's loop body for the reference r
SweepProcesses(r) ==
  /\ last'.op \in {"sweep_mark", "sweep_call"}
  /\ last'.ref = r
  /\ refs'[r] # refs[r]

\* C18: when the call of a due callback fails to place, the Reference ends with
\* callback_status completed and status failed and the failure note appended to
\* its notes, and no later step of a sweep processes that Reference again.
C18_FailedCallbackIsFinal ==
  [][ \A r \in Refs :
        /\ ( /\ last'.op = "sweep_call" /\ last'.ref = r /\ last'.result = "error"
             /\ sweep' # sweep )
           => ( /\ refs'[r].callback_status = "completed"
                /\ refs'[r].status = "failed"
                /\ refs'[r].notes = refs[r].notes \o <<"Callback failed">> )
        /\ ( /\ refs[r].callback_status = "completed"
             /\ refs[r].status = "failed" )
           => ~ SweepProcesses(r) ]_vars

\* C19: a poll that puts a Reference in no_answer enters the callback flow
\* (callback_status none -> awaiting_reply, sms_sent set, callback_expires_at
\* set 24 hours ahead) exactly when an SMS channel is configured, no SMS was
\* sent for the Reference before and the send succeeds; otherwise it leaves
\* callback_status, sms_sent and callback_expires_at as they were
LandsInNoAnswer(r) ==
  /\ refs[r].exists
  /\ refs'[r].exists
  /\ refs'[r].status = "no_answer"
  /\ \/ refs[r].status # "no_answer"
     \/ /\ last'.op = "check_call_status"
        /\ last'.ref = r
        /\ last'.call_status = Status_Ended

C19_CallbackFlowEntry ==
  [][ \A r \in Refs :
        LandsInNoAnswer(r) =>
          IF config.twilio /\ ~ refs[r].sms_sent /\ last'.sms_requested
            THEN /\ refs[r].callback_status = "none"
                 /\ refs'[r].callback_status = "awaiting_reply"
                 /\ refs'[r].sms_sent
                 /\ refs'[r].callback_expires_at = now + CallbackExpiryHours
            ELSE /\ refs'[r].callback_status = refs[r].callback_status
                 /\ refs'[r].sms_sent = refs[r].sms_sent
                 /\ refs'[r].callback_expires_at = refs[r].callback_expires_at ]_vars

C19_Witness ==
  /\ last.op = "check_call_status"
  /\ last.sms_requested
  /\ config.twilio
  /\ \E r \in Refs :
       /\ last.ref = r
       /\ refs[r].status = "no_answer"
       /\ refs[r].sms_sent
       /\ refs[r].callback_status = "awaiting_reply"
       /\ refs[r].callback_expires_at = now + CallbackExpiryHours

\* C20: when the voice provider accepts the call the Reference holds the call
\* id and is in status calling; when the provider returns an error the status
\* is failed, call_id is what it was and the route answers with the error;
\* start_outreach treats each pending Reference the same way
Accepted(r) ==
  /\ refs'[r].status = "calling"
  /\ refs'[r].call_id # None

Refused(r) ==
  /\ refs'[r].status = "failed"
  /\ refs'[r].call_id = refs[r].call_id

C20_CallInitiation ==
  [][ \A r \in Refs :
        /\ (last'.op = "start_reference_check" /\ last'.ref = r) =>
             /\ last'.result = "ok" => Accepted(r)
             /\ last'.result = "error" => Refused(r)
             /\ last'.result \notin {"ok", "error"} => refs'[r] = refs[r]
        /\ (last'.op = "start_outreach" /\ r \in pending_refs) =>
             Accepted(r) \/ Refused(r) ]_vars

C20_Witness ==
  /\ last.op = "start_reference_check"
  /\ last.result = "error"
  /\ \E r \in Refs :
       /\ last.ref = r
       /\ refs[r].status = "failed"
       /\ refs[r].call_id # None

\* C21: call initiation uses the Reference's own job, else the Candidate's
\* first job; when the Candidate has no job the operation reports an input
\* error, makes no provider call and changes no Reference's status or call_id
StatusAndCallIdKept ==
  \A r \in Refs :
    /\ refs'[r].status = refs[r].status
    /\ refs'[r].call_id = refs[r].call_id

StatusAndCallbackKept(rows) ==
  \A r \in rows :
    /\ refs'[r].status = refs[r].status
    /\ refs'[r].callback_status = refs[r].callback_status

C22_ConfigErrorKeepsState ==
  [][ /\ (last'.op \in {"start_reference_check", "start_outreach"} /\ ~ config.vapi) =>
           StatusAndCallbackKept(Refs)
      /\ (last'.op = "process_scheduled_callbacks" /\ ~ config.vapi) =>
           StatusAndCallbackKept({r \in Refs : due_callback(refs[r])})
      /\ (last'.op = "check_call_status" /\ ~ config.twilio) =>
           \A r \in Refs : refs'[r].callback_status = refs[r].callback_status ]_vars

\* C23: a status poll whose provider request fails answers with the error and
\* leaves every field of every Reference and the Candidate's status unchanged
C23_FailedPollKeepsState ==
  [][ (last'.op = "check_call_status" /\ last'.result = "error") =>
        /\ refs' = refs
        /\ candStatus' = candStatus ]_vars

C23_Witness ==
  /\ last.op = "check_call_status"
  /\ last.result = "error"
  /\ \E r \in Refs :
       /\ last.ref = r
       /\ refs[r].status = "calling"
       /\ refs[r].call_id # None
       /\ refs[r].score = Null

\* the submission handled in this step, for a request that was open
Submits(r) ==
  /\ lastSurvey'.op \in {"app.submit_survey", "public.submit_survey"}
  /\ lastSurvey'.ref = r
  /\ surveys[r].exists
  /\ is_valid(surveys[r], now).valid

\* every question with required=true has a non-empty value posted for it
RequiredAnswered(r) ==
  \A i \in 1..Len(surveys[r].questions) :
    surveys[r].questions[i].required =>
      i \in lastSurvey'.keys /\ lastSurvey'.form[i] # <<>>

\* C24: a survey submission is accepted only if every required question has
\* a non-empty answer; a submission missing a required answer is rejected,
\* leaves the SurveyRequest pending and Reference.survey_status unchanged and
\* persists no SurveyResponse
C24_RequiredAnswers ==
  [][ \A r \in Refs :
        Submits(r) =>
          /\ lastSurvey'.result = "accepted" => RequiredAnswered(r)
          /\ ~ RequiredAnswered(r) =>
               /\ lastSurvey'.result # "accepted"
               /\ surveys'[r].status = "pending"
               /\ refs'[r].survey_status = refs[r].survey_status
               /\ surveys'[r].responses = {} ]_vars

\* C25: an accepted submission leaves the SurveyRequest completed and
\* Reference.survey_status completed, both already so when the analysis is
\* requested; the analysis' score is stored when there is one, and without
\* one both stay completed
C25_CompletedBeforeAnalysis ==
  [][ \A r \in Refs :
        (Submits(r) /\ RequiredAnswered(r) /\ lastSurvey'.result = "accepted") =>
          /\ surveys'[r].status = "completed"
          /\ refs'[r].survey_status = "completed"
          /\ lastSurvey'.completed_at_analysis
          /\ surveys'[r].survey_score = lastSurvey'.analysis ]_vars

\* C26: sending or submitting a survey, with or without an analysis, changes
\* no Reference's score, status or callback_status, so Candidate.get_signal
\* is the same before and after
C26_SurveyKeepsSignal ==
  [][ last'.op \in {"send_survey", "submit_survey", "public_submit_survey"} =>
        /\ \A r \in Refs :
             /\ refs'[r].score = refs[r].score
             /\ refs'[r].status = refs[r].status
             /\ refs'[r].callback_status = refs[r].callback_status
        /\ get_signal(refs') = get_signal(refs) ]_vars

C26_Witness ==
  /\ last.op = "submit_survey"
  /\ lastSurvey.result = "accepted"
  /\ lastSurvey.analysis # Null
  /\ get_signal(refs).score = 88
  /\ \E r \in Refs :
       /\ last.ref = r
       /\ refs[r].survey_status = "completed"
       /\ refs[r].status = "completed"
       /\ refs[r].score = 100
       /\ surveys[r].survey_score = lastSurvey.analysis

\* the requests of the owner that are in status pending
PendingRequests(rows) ==
  { q \in Reqs : rows[q].exists /\ rows[q].status = "pending" }

\* C27: after every send for one owner at most one of the owner's requests is
\* pending, and none is when the email could not be sent
C27_OnePendingRequest ==
  [][ /\ Cardinality(PendingRequests(reqs')) <= 1
      /\ \A q \in Reqs :
           (~ reqs[q].exists /\ reqs'[q].exists /\ reqs'[q].status = "expired") =>
             PendingRequests(reqs') = {} ]_vars

C27_Witness ==
  /\ Cardinality({ q \in Reqs : reqs[q].exists }) >= 2
  /\ Cardinality(PendingRequests(reqs)) = 1
  /\ \E q \in Reqs : reqs[q].exists /\ reqs[q].status = "expired" /\ now <= reqs[q].expires_at

\* the operations of the state machine
MachineOps ==
  { "start_reference_check", "start_outreach", "check_call_status", "sms_webhook",
    "process_scheduled_callbacks" }

\* C28: once a Reference is completed or failed, no operation of the state
\* machine changes its status, and a failed Reference never gets a score
C28_TerminalStatus ==
  [][ \A r \in Refs :
        (last'.op \in MachineOps /\ refs[r].exists /\ refs'[r].exists) =>
          /\ refs[r].status \in {"completed", "failed"} =>
               refs'[r].status = refs[r].status
          /\ refs[r].status = "failed" => refs'[r].score = refs[r].score ]_vars

\* a Reference settles into completed, failed or no_answer in this step
Settles(r) ==
  /\ refs[r].exists
  /\ refs'[r].exists
  /\ refs'[r].status \in {"completed", "failed", "no_answer"}
  /\ refs'[r].status # refs[r].status

\* C29: whenever an operation of the state machine settles a Reference into
\* completed, failed or no_answer and every Reference of the Candidate is then
\* in one of the three, Candidate.status is completed after the operation
C29_RollupOnEverySettle ==
  [][ (last'.op \in MachineOps /\ all_done(refs') /\ \E r \in Refs : Settles(r)) =>
        candStatus' = "completed" ]_vars

\* the user-facing edits of a candidate and its references
EditOps ==
  { "update_candidate", "update_reference", "add_reference", "delete_reference",
    "schedule_reference_call", "send_reference_sms" }

InFlight(rows) ==
  \E r \in Refs : rows[r].exists /\ rows[r].status \in {"pending", "calling", "scheduled"}

\* C30: while a Reference of the Candidate is pending, calling or scheduled,
\* no user-facing edit changes Candidate.status
C30_NoEditOfCandidateStatus ==
  [][ (last'.op \in EditOps /\ InFlight(refs)) => candStatus' = candStatus ]_vars

\* C31: in awaiting_reply, an inbound SMS the parser reports as not about
\* scheduling (parsed_successfully false, no error) moves callback_status to
\* none, with the decline in notes; a parser error or a result that needs
\* clarification leaves callback_status at awaiting_reply and a follow-up
\* question is sent.
NotAboutScheduling(parsed) ==
  ~ parsed.error /\ ~ parsed.parsed_successfully

AsksAgain(parsed) ==
  parsed.error \/ (parsed.parsed_successfully /\ parsed.needs_clarification)

ReceivedIn(r, callback_status) ==
  /\ last'.op = "sms_webhook"
  /\ last'.ref = r
  /\ refs[r].callback_status = callback_status

C31_WitnessAsked ==
  /\ last.op = "sms_webhook"
  /\ last.pre_callback_status = "awaiting_reply"
  /\ \E parsed \in last.parsed : AsksAgain(parsed) /\ parsed.needs_clarification
  /\ last.sms_requested
  /\ refs[last.ref].callback_status = "awaiting_reply"

\* C32: in time_proposed, a non-affirmative inbound SMS is evaluated as a
\* message received in awaiting_reply is: a parsed time lands in time_proposed
\* with the new callback_scheduled_time, a message not about scheduling goes
\* to none, and an ambiguous time or a parser failure stays in awaiting_reply
\* with a clarification question sent.
ProposesTime(parsed) ==
  ~ parsed.error /\ parsed.parsed_successfully /\ ~ parsed.needs_clarification

C32_NewSuggestionOutcomes ==
  [][ \A r \in Refs :
        (ReceivedIn(r, "time_proposed") /\ ~ affirmative[last'.body]) =>
          \A parsed \in last'.parsed :
            /\ ProposesTime(parsed) =>
                  /\ refs'[r].callback_status = "time_proposed"
                  /\ refs'[r].callback_scheduled_time = parsed.datetime_iso
            /\ NotAboutScheduling(parsed) =>
                  refs'[r].callback_status = "none"
            /\ AsksAgain(parsed) =>
                  /\ refs'[r].callback_status = "awaiting_reply"
                  /\ last'.sms_requested ]_vars

\* C33: sms_conversation is an append-only log: the log before any operation
\* is a prefix of the log after it, and a handled inbound SMS leaves exactly
\* one inbound entry for it, ahead of the reply it triggered.
IsPrefix(s, t) ==
  Len(s) <= Len(t) /\ SubSeq(t, 1, Len(s)) = s

Commits(h) ==
  hooks[h].pc = "handling" /\ hooks'[h].pc = "idle"

C33_AppendOnlyLog ==
  [][ /\ \A r \in Refs : IsPrefix(conv[r], conv'[r])
      /\ \A h \in Hooks :
            Commits(h) =>
              LET log == conv'[hooks[h].ref]
                  inbound == {i \in DOMAIN log : log[i] = Message("inbound", hooks[h].n)}
                  outbound == {i \in DOMAIN log : log[i] = Message("outbound", hooks[h].n)}
              IN  /\ Cardinality(inbound) = 1
                  /\ \A j \in outbound : \E i \in inbound : i < j ]_vars

\* C34: a Reference in status scheduled whose scheduled_time is due is fired:
\* with the sweep executed again and again after scheduled_time, it eventually
\* leaves scheduled.
ScheduledAndDue(r) ==
  /\ refs[r].exists
  /\ refs[r].status = "scheduled"
  /\ scheduled_time[r] # Null
  /\ scheduled_time[r] <= now

C34_ScheduledIsFired ==
  \A r \in FirstRef : ScheduledAndDue(r) ~> (refs[r].status # "scheduled")

\* C35: callback_expires_at is a fixed horizon: once it is set, no later
\* operation on the Reference (inbound or outbound SMS, new proposal,
\* clarification, poll, sweep) modifies it.
C35_FixedHorizon ==
  [][ \A r \in Refs :
        (refs[r].exists /\ refs'[r].exists /\ refs[r].callback_expires_at # Null) =>
          refs'[r].callback_expires_at = refs[r].callback_expires_at ]_vars

\* a new time was proposed, hours after the callback-request SMS
C35_Witness ==
  /\ last.op = "sms_webhook"
  /\ last.pre_callback_status = "time_proposed"
  /\ refs[last.ref].callback_status = "time_proposed"
  /\ refs[last.ref].callback_expires_at # Null
  /\ refs[last.ref].callback_expires_at < now + CallbackExpiryHours

\* C36: at most one callback-request SMS is auto-sent per Reference: the
\* no_answer handling sends it and sets callback_expires_at only while
\* sms_sent is false, setting sms_sent, and sms_sent never returns to false.
AutoSends(r) ==
  /\ last'.op = "check_call_status"
  /\ last'.ref = r
  /\ last'.sms_requested

C36_OneAutoSms ==
  [][ \A r \in Refs :
        (refs[r].exists /\ refs'[r].exists) =>
          /\ refs[r].sms_sent => refs'[r].sms_sent
          /\ AutoSends(r) => (~ refs[r].sms_sent /\ refs'[r].sms_sent)
          /\ refs'[r].callback_expires_at # refs[r].callback_expires_at =>
                (~ refs[r].sms_sent /\ AutoSends(r)) ]_vars

\* another unsuccessful call was polled after the callback request had gone
\* out, and no second request was sent
C36_Witness ==
  /\ last.op = "check_call_status"
  /\ last.call_status = Status_Ended
  /\ ~ last.sms_requested
  /\ config.twilio
  /\ refs[last.ref].status = "no_answer"
  /\ refs[last.ref].sms_sent
  /\ refs[last.ref].callback_expires_at # Null

\* C37: a Reference that reaches callback_status confirmed has a
\* callback_scheduled_time, and with the sweep executed again and again it
\* leaves confirmed once that time has come: it is never confirmed for ever.
Confirmed(r) ==
  refs[r].exists /\ refs[r].callback_status = "confirmed"

\* the scheduled time lies beyond the hours the clock is followed for
BeyondClock(r) ==
  /\ refs[r].callback_scheduled_time # Null
  /\ refs[r].callback_scheduled_time > MaxTicks * TickHours

C37_ConfirmedIsCalled ==
  /\ [](\A r \in Refs : Confirmed(r) => refs[r].callback_scheduled_time # Null)
  /\ \A r \in Refs : Confirmed(r) ~> (~ Confirmed(r) \/ BeyondClock(r))

\* C38: no Reference enters callback_status time_proposed or confirmed later
\* than its callback_expires_at: an inbound SMS after the horizon does not
\* advance the negotiation, even before a sweep has marked it expired.
Advances(r) ==
  /\ refs[r].exists
  /\ refs'[r].exists
  /\ refs'[r].callback_status \in {"time_proposed", "confirmed"}
  /\ \/ refs'[r].callback_status # refs[r].callback_status
     \/ /\ ReceivedIn(r, "time_proposed")
        /\ refs'[r].callback_scheduled_time # refs[r].callback_scheduled_time

C38_NoAdvanceAfterHorizon ==
  [][ \A r \in Refs :
        Advances(r) =>
          /\ refs[r].callback_expires_at # Null
          /\ now <= refs[r].callback_expires_at ]_vars

\* C39: process_scheduled_callbacks never modifies Candidate.status: when
\* the sweep moves a Reference from no_answer to calling or to failed, the
\* Candidate's status stays as it was, completed included.
C39_SweepKeepsCandidateStatus ==
  [][ last'.op = "process_scheduled_callbacks" => candStatus' = candStatus ]_vars

\* the sweep has placed the callback of a Candidate that was completed
C39_Witness ==
  /\ last.op = "process_scheduled_callbacks"
  /\ candStatus = "completed"
  /\ \E r \in Refs :
       /\ refs[r].exists
       /\ refs[r].status = "calling"
       /\ refs[r].callback_status = "completed"

\* C40: a token is single-use: once a submission through a ReferenceRequest
\* or SurveyRequest token has completed the request, every later GET or POST
\* with the token is rejected, creates no Reference and no SurveyResponse and
\* changes no status, before and after expires_at.
ChecksToken(q) ==
  lastCheck' # lastCheck /\ lastCheck'.req = q

PostsSurvey(r) ==
  lastSurvey' # lastSurvey /\ lastSurvey'.ref = r

C40_SingleUseToken ==
  [][ /\ \A q \in Reqs :
            (reqs[q].exists /\ reqs[q].status = "completed") =>
              /\ reqs'[q] = reqs[q]
              /\ ChecksToken(q) => (~ lastCheck'.valid /\ refs' = refs)
      /\ \A r \in Refs :
            (surveys[r].exists /\ surveys[r].status = "completed") =>
              /\ surveys'[r] = surveys[r]
              /\ PostsSurvey(r) => (lastSurvey'.result = "expired" /\ refs' = refs) ]_vars

\* both tokens were used again after their submission, one of them after its
\* expiry time
C40_Witness ==
  /\ lastCheck.req # 0
  /\ lastCheck.pre_status = "completed"
  /\ lastCheck.route = "app.submit_references"
  /\ lastCheck.at > lastCheck.expires_at
  /\ lastSurvey.ref # 0
  /\ lastSurvey.result = "expired"
  /\ surveys[lastSurvey.ref].status = "completed"
  /\ surveys[lastSurvey.ref].responses # {}

\* C17: overlapping handlers for one Reference lose no update: once no request
\* is in progress, sms_conversation contains every message that any handler
\* appended.
C17_NoLostMessage ==
  (\A h \in Hooks : hooks[h].pc = "idle") =>
    \A r \in Refs : \A m \in logged[r] : \E i \in 1..Len(conv[r]) : conv[r][i] = m

====
